---- MODULE Spec2Model ----
(***************************************************************************)
(* Copy-on-write B+tree index (btree/src/btreeindex).                      *)
(*                                                                         *)
(* The facade (mod.rs) is translated from its source.  The node layout,    *)
(* the backtrack stacks, the page manager and the version manager are the  *)
(* collaborators the facade calls; they are modelled from the              *)
(* specification's description of them.                                    *)
(***************************************************************************)
EXTENDS Integers, Sequences, FiniteSets, TLC

VARIABLES
    pages,            \* Pages: the page store, PageId -> node
    page_manager,     \* TransactionManager's PageManager: next_page, free_pages
    latest_version,   \* the published root and its version stamp
    versions,         \* committed versions whose reclaimed pages are pending
    unpublished,      \* a commit happened since the last checkpoint
    metadata,         \* BTree.metadata.0: in-memory copy of the durable metadata
    metadata_file,    \* BTree.metadata.1: the metadata file, as its u32 words
    checkpointed,     \* history: published root and content at the last checkpoint
    disk,             \* what sync_file / sync_all have flushed: pages, metadata words
    static_settings,  \* StaticSettings (as the node capacities the page size gives)
    static_settings_file, \* the static settings file, as its words
    bt,               \* the descent in progress: its phase and backtrack stack
    writer,           \* the writer slot: thread holding the WriteTransaction, 0 if free
    tx,               \* the live WriteTransaction: root, pages of the transaction
    th,               \* writer threads: operation in progress and its position
    rd,               \* reader threads: ReadTransaction / BTreeIterator in progress
    hist,             \* history: key/value content of every committed version
    calls             \* number of mutating calls made so far

vars == <<pages, page_manager, latest_version, versions, unpublished, metadata,
          metadata_file, checkpointed, disk, static_settings, static_settings_file, bt,
          writer, tx, th, rd, hist, calls>>

(***************************************************************************)
(* Bounds of the model.                                                    *)
(***************************************************************************)
LeafCap == 2          \* keys a leaf holds (given by the page size)
InternalCap == 2      \* keys an internal node holds (given by the page size)
DeepInternalCap == 4  \* keys an internal node of the populated tree holds
NKeys == 3            \* keys 0..NKeys-1 of Spec
MaxCalls == 3         \* mutating calls a behaviour of Spec makes
NInsKeys == 5         \* keys 0..NInsKeys-1 of SpecIns
MaxInsCalls == 3      \* mutating calls a behaviour of SpecIns makes
NDelKeys == 7         \* keys 0..NDelKeys-1 the populated tree of SpecDel holds
MaxDescentCalls == 3  \* calls of SpecDescent, its insert_many included
MaxDelCalls == 4      \* mutating calls a behaviour of SpecDel makes
NLifeKeys == 3        \* keys 0..NLifeKeys-1 of SpecLife
MaxLifeCalls == 4     \* calls a behaviour of SpecLife makes
NCkptKeys == 2       \* keys 0..1 of SpecCkpt
MaxCkptCalls == 5    \* calls of SpecCkpt
MaxLockCalls == 3     \* calls of SpecLock, its insert_many included
NSmallKeys == 3       \* keys 0..NSmallKeys-1 of SpecSmall
MaxSmallCalls == 4    \* mutating calls a behaviour of SpecSmall makes

None == -1            \* Option::None of an Option<usize> / Option<V>
NullPage == 0         \* PageId 0 is reserved as null

(***************************************************************************)
(* ArrayView: positions are 0-based as in the source.                      *)
(***************************************************************************)
\* the value of the one element of a set: The({e(x) : x \in {d}}) is e with
\* x standing for the value of d
The(S) == CHOOSE x \in S : TRUE

Get(s, i) == s[i + 1]

TryGet(s, i) == IF i >= 0 /\ i < Len(s) THEN s[i + 1] ELSE None

SetAt(s, i, x) == [s EXCEPT ![i + 1] = x]

InsertAt(s, i, x) == SubSeq(s, 1, i) \o <<x>> \o SubSeq(s, i + 1, Len(s))

DeleteAt(s, i) == SubSeq(s, 1, i) \o SubSeq(s, i + 2, Len(s))

\* Ok(pos of equal) or Err(insertion position)
binary_search(keys, key) ==
    IF \E i \in 1..Len(keys) : keys[i] = key
    THEN [ok |-> TRUE, pos |-> (CHOOSE i \in 1..Len(keys) : keys[i] = key) - 1]
    ELSE [ok |-> FALSE, pos |-> Cardinality({i \in 1..Len(keys) : keys[i] < key})]

(***************************************************************************)
(* Node layout.                                                            *)
(***************************************************************************)
new_leaf == [tag |-> "Leaf", keys |-> <<>>, values |-> <<>>, children |-> <<>>]

new_internal == [tag |-> "Internal", keys |-> <<>>, values |-> <<>>, children |-> <<>>]

leaf_capacity == static_settings.leaf_capacity

internal_capacity == static_settings.internal_capacity

\* least number of keys of a non-root leaf / internal node
leaf_lower_bound == (leaf_capacity + 1) \div 2

internal_lower_bound == internal_capacity \div 2

\* LeafMut::insert: Ok, DuplicatedKey or Split(split_key, right_node)
leaf_insert(node, key, value) ==
    LET bs == binary_search(node.keys, key)
        ks == InsertAt(node.keys, bs.pos, key)
        vs == InsertAt(node.values, bs.pos, value)
        h  == Len(ks) \div 2
    IN  IF bs.ok
        THEN [status |-> "DuplicatedKey", node |-> node, split_key |-> None,
              right |-> new_leaf]
        ELSE IF Len(node.keys) < leaf_capacity
        THEN [status |-> "Ok", node |-> [node EXCEPT !.keys = ks, !.values = vs],
              split_key |-> None, right |-> new_leaf]
        ELSE [status |-> "Split",
              node |-> [node EXCEPT !.keys = SubSeq(ks, 1, h),
                                    !.values = SubSeq(vs, 1, h)],
              split_key |-> ks[h + 1],
              right |-> [new_leaf EXCEPT !.keys = SubSeq(ks, h + 1, Len(ks)),
                                         !.values = SubSeq(vs, h + 1, Len(vs))]]

\* InternalMut::insert: Ok, DuplicatedKey or Split(promoted key, right_node)
internal_insert(node, key, right_id) ==
    LET bs == binary_search(node.keys, key)
        ks == InsertAt(node.keys, bs.pos, key)
        cs == InsertAt(node.children, bs.pos + 1, right_id)
        m  == Len(ks) \div 2
    IN  IF bs.ok
        THEN [status |-> "DuplicatedKey", node |-> node, split_key |-> None,
              right |-> new_internal]
        ELSE IF Len(node.keys) < internal_capacity
        THEN [status |-> "Ok", node |-> [node EXCEPT !.keys = ks, !.children = cs],
              split_key |-> None, right |-> new_internal]
        ELSE [status |-> "Split",
              node |-> [node EXCEPT !.keys = SubSeq(ks, 1, m),
                                    !.children = SubSeq(cs, 1, m + 1)],
              split_key |-> ks[m + 1],
              right |-> [new_internal EXCEPT
                           !.keys = SubSeq(ks, m + 2, Len(ks)),
                           !.children = SubSeq(cs, m + 2, Len(cs))]]

\* InternalMut::insert_first
insert_first(node, key, left_child, right_child) ==
    [node EXCEPT !.keys = <<key>>, !.children = <<left_child, right_child>>]

(***************************************************************************)
(* Page manager and the pages of a write transaction.  A transaction t is  *)
(* the record [pages, next_page, free_pages, root, fresh, shadowed]: the   *)
(* page store and page manager it writes through, its root, the pages it   *)
(* allocated and the committed pages it superseded.                        *)
(***************************************************************************)
Last(s) == s[Len(s)]

Front(s) == SubSeq(s, 1, Len(s) - 1)

put_page(ps, id, node) ==
    [p \in (DOMAIN ps) \cup {id} |-> IF p = id THEN node ELSE ps[p]]

\* PageManager::new_id: pop the free list, else take the watermark
new_id(t) ==
    IF Len(t.free_pages) > 0
    THEN [t |-> [t EXCEPT !.free_pages = Front(t.free_pages)],
          id |-> Last(t.free_pages)]
    ELSE [t |-> [t EXCEPT !.next_page = t.next_page + 1], id |-> t.next_page]

\* WriteTransaction::add_new_node: allocate a PageId and install the page
add_new_node(t, node) ==
    LET a == new_id(t)
    IN  [t |-> [a.t EXCEPT !.pages = put_page(a.t.pages, a.id, node),
                           !.fresh = a.t.fresh \cup {a.id}],
         id |-> a.id]

\* WriteTransaction::mut_page: a page of the transaction as it is, a committed
\* page as a shadow copy under a new id; the original is scheduled for reclamation
mut_page(t, id) ==
    IF id \in t.fresh
    THEN [t |-> t, id |-> id]
    ELSE LET a == add_new_node(t, t.pages[id])
         IN  [t |-> [a.t EXCEPT !.shadowed = a.t.shadowed \cup {id}], id |-> a.id]

\* InsertBacktrack::new_root / DeleteNextElement::set_root
new_root(t, node) ==
    LET a == add_new_node(t, node)
    IN  [a.t EXCEPT !.root = a.id]

set_root(t, id) == [t EXCEPT !.root = id]

\* MutContext::delete_node / delete_right_sibling: a page of the transaction
\* that left the tree is scheduled for reclamation
delete_node(t, id) ==
    [t EXCEPT !.fresh = t.fresh \ {id}, !.shadowed = t.shadowed \cup {id}]

(***************************************************************************)
(* Descent.                                                                *)
(***************************************************************************)
\* the routing with the pivot of a key equal to a separator taken to the left
\* of the separator (Ok(pos) => pos instead of pos + 1)
upper_pivot_left_of_equal(inode, key) ==
    LET bs == binary_search(inode.keys, key)
    IN  IF bs.pos < Len(inode.children) THEN bs.pos ELSE Len(inode.children) - 1

\* BTree::search, the child an internal node routes key to (upper pivot,
\* clamped to the last child)
upper_pivot(inode, key) ==
    LET bs == binary_search(inode.keys, key)
        p  == IF bs.ok THEN bs.pos + 1 ELSE bs.pos
    IN  IF p < Len(inode.children) THEN p ELSE Len(inode.children) - 1

RECURSIVE search(_, _, _)
search(ps, id, key) ==
    IF ps[id].tag = "Internal"
    THEN search(ps, Get(ps[id].children, upper_pivot(ps[id], key)), key)
    ELSE id

\* BTree::lookup on the root a read transaction captured
lookup(ps, root, key) ==
    LET leaf == ps[search(ps, root, key)]
        bs   == binary_search(leaf.keys, key)
    IN  IF bs.ok THEN Get(leaf.values, bs.pos) ELSE None

\* Backtrack descent: every node of the path becomes a page of the
\* transaction; a frame records the node, its parent, its position among the
\* parent's children, the anchor and the immediate siblings
RECURSIVE descend(_, _, _, _)
descend(t, id, key, stack) ==
    IF t.pages[id].tag = "Leaf" THEN [t |-> t, stack |-> stack]
    ELSE The({
           The({
             descend([c.t EXCEPT !.pages[id].children = SetAt(@, pos, c.id)],
                     c.id, key,
                     Append(stack,
                            [id |-> c.id, parent |-> id,
                             anchor |-> IF pos > 0 THEN pos - 1 ELSE None,
                             left |-> IF pos > 0
                                      THEN Get(t.pages[id].children, pos - 1)
                                      ELSE NullPage,
                             right |-> IF pos + 1 < Len(t.pages[id].children)
                                       THEN Get(t.pages[id].children, pos + 1)
                                       ELSE NullPage]))
             : c \in {mut_page(t, Get(t.pages[id].children, pos))} })
           : pos \in {upper_pivot(t.pages[id], key)} })

\* InsertBacktrack::new_search_for / DeleteBacktrack::new_search_for
new_search_for(t, key) ==
    The({ descend(set_root(r.t, r.id), r.id, key,
                  <<[id |-> r.id, parent |-> NullPage, anchor |-> None,
                     left |-> NullPage, right |-> NullPage]>>)
          : r \in {mut_page(t, t.root)} })

(***************************************************************************)
(* Insert.                                                                 *)
(***************************************************************************)
\* insert_in_leaf taking DuplicatedKey for a success
insert_in_leaf_duplicate_ok(t, leaf_id, key, value) ==
    The({ [t |-> [t EXCEPT !.pages[leaf_id] = st.node],
           err |-> "Ok",
           update |-> st.status = "Split",
           split_key |-> st.split_key,
           new_node |-> st.right]
          : st \in {leaf_insert(t.pages[leaf_id], key, value)} })

\* insert_in_leaf handing the first key of the left node to the parent
insert_in_leaf_left_key(t, leaf_id, key, value) ==
    The({ [t |-> [t EXCEPT !.pages[leaf_id] = st.node],
           err |-> IF st.status = "DuplicatedKey" THEN "DuplicatedKey" ELSE "Ok",
           update |-> st.status = "Split",
           split_key |-> IF st.status = "Split" THEN st.node.keys[1] ELSE None,
           new_node |-> st.right]
          : st \in {leaf_insert(t.pages[leaf_id], key, value)} })

\* BTree::insert_in_leaf
insert_in_leaf(t, leaf_id, key, value) ==
    The({ [t |-> [t EXCEPT !.pages[leaf_id] = st.node],
           err |-> IF st.status = "DuplicatedKey" THEN "DuplicatedKey" ELSE "Ok",
           update |-> st.status = "Split",
           split_key |-> st.split_key,
           new_node |-> st.right]
          : st \in {leaf_insert(t.pages[leaf_id], key, value)} })

\* create_internal_node with the new sibling on the left
create_internal_node_sibling_first(left_child, right_child, key) ==
    insert_first(new_internal, key, right_child, left_child)

\* BTree::create_internal_node
create_internal_node(left_child, right_child, key) ==
    insert_first(new_internal, key, left_child, right_child)

\* BTree::insert_in_internals: the loop over the remaining frames, parent first
RECURSIVE insert_in_internals(_, _, _, _)
insert_in_internals(split_key, right_id, t, stack) ==
    The({
      IF st.status = "Ok"
      THEN [t |-> [t EXCEPT !.pages[Last(stack).id] = st.node], err |-> "Ok"]
      ELSE IF st.status # "Split" THEN [t |-> t, err |-> "unreachable"]
      ELSE The({
             IF Len(stack) > 1
             THEN insert_in_internals(st.split_key, a.id, a.t, Front(stack))
             ELSE [t |-> new_root(a.t, create_internal_node(Last(stack).id, a.id,
                                                            st.split_key)),
                   err |-> "Ok"]
             : a \in {add_new_node([t EXCEPT !.pages[Last(stack).id] = st.node],
                                   st.right)} })
      : st \in {internal_insert(t.pages[Last(stack).id], split_key, right_id)} })

\* BTree::insert
insert(t, key, value) ==
    The({
      The({
        IF il.err # "Ok" THEN [t |-> il.t, err |-> il.err]
        ELSE IF ~il.update THEN [t |-> il.t, err |-> "Ok"]
        ELSE The({
               IF Len(backtrack.stack) > 1
               THEN insert_in_internals(il.split_key, a.id, a.t,
                                        Front(backtrack.stack))
               ELSE [t |-> new_root(a.t,
                                    create_internal_node(Last(backtrack.stack).id,
                                                         a.id, il.split_key)),
                     err |-> "Ok"]
               : a \in {add_new_node(il.t, il.new_node)} })
        : il \in {insert_in_leaf(backtrack.t, Last(backtrack.stack).id, key, value)} })
      : backtrack \in {new_search_for(t, key)} })

(***************************************************************************)
(* Delete.                                                                 *)
(***************************************************************************)
\* LeafMut::delete: Ok or NeedsRebalance when the key was removed, the
\* not-found signal (the Err the ? of delete_async propagates) when it is absent
leaf_delete(node, key) ==
    LET bs == binary_search(node.keys, key)
        n  == [node EXCEPT !.keys = DeleteAt(@, bs.pos), !.values = DeleteAt(@, bs.pos)]
    IN  IF ~bs.ok THEN [status |-> "KeyNotFound", node |-> node]
        ELSE [status |-> IF Len(n.keys) < leaf_lower_bound
                         THEN "NeedsRebalance" ELSE "Ok",
              node |-> n]

\* InternalMut::delete_key_children: keys[anchor] and children[anchor + 1]
delete_key_children(node, anchor) ==
    LET n == [node EXCEPT !.keys = DeleteAt(@, anchor),
                          !.children = DeleteAt(@, anchor + 1)]
    IN  [status |-> IF Len(n.keys) < internal_lower_bound
                    THEN "NeedsRebalance" ELSE "Ok",
         node |-> n]

\* rebalance(siblings): borrow before merge, left before right
rebalance(ps, fr, lower_bound) ==
    IF fr.left # NullPage /\ Len(ps[fr.left].keys) > lower_bound THEN "TakeFromLeft"
    ELSE IF fr.right # NullPage /\ Len(ps[fr.right].keys) > lower_bound
    THEN "TakeFromRight"
    ELSE IF fr.left # NullPage THEN "MergeIntoLeft"
    ELSE IF fr.right # NullPage THEN "MergeIntoSelf"
    ELSE "InvariantViolation"

\* MutContext::mut_left_sibling / mut_right_sibling: the sibling as a page of
\* the transaction, the parent pointing to it
mut_left_sibling(t, fr) ==
    The({ [t |-> [c.t EXCEPT !.pages[fr.parent].children = SetAt(@, fr.anchor, c.id)],
           id |-> c.id]
          : c \in {mut_page(t, fr.left)} })

mut_right_sibling(t, fr) ==
    The({ [t |-> [c.t EXCEPT !.pages[fr.parent].children =
                                  SetAt(@, fr.anchor + 2, c.id)],
           id |-> c.id]
          : c \in {mut_page(t, fr.right)} })

\* the four rebalance operations of a leaf
leaf_take_key_from_left(t, fr, sibling) ==
    LET l == t.pages[sibling]
    IN  [t EXCEPT !.pages[fr.id].keys = <<Last(l.keys)>> \o @,
                  !.pages[fr.id].values = <<Last(l.values)>> \o @,
                  !.pages[sibling].keys = Front(@),
                  !.pages[sibling].values = Front(@),
                  !.pages[fr.parent].keys = SetAt(@, fr.anchor, Last(l.keys))]

leaf_take_key_from_right(t, fr, sibling) ==
    LET r == t.pages[sibling]
    IN  [t EXCEPT !.pages[fr.id].keys = Append(@, Head(r.keys)),
                  !.pages[fr.id].values = Append(@, Head(r.values)),
                  !.pages[sibling].keys = Tail(@),
                  !.pages[sibling].values = Tail(@),
                  !.pages[fr.parent].keys = SetAt(@, fr.anchor + 1, r.keys[2])]

leaf_merge_into_left(t, fr, sibling) ==
    [t EXCEPT !.pages[sibling].keys = @ \o t.pages[fr.id].keys,
              !.pages[sibling].values = @ \o t.pages[fr.id].values]

leaf_merge_into_self(t, fr, sibling) ==
    [t EXCEPT !.pages[fr.id].keys = @ \o t.pages[sibling].keys,
              !.pages[fr.id].values = @ \o t.pages[sibling].values]

\* the four rebalance operations of an internal node: through the parent's key
internal_take_key_from_left(t, fr, sibling) ==
    LET l == t.pages[sibling]
        p == t.pages[fr.parent]
    IN  [t EXCEPT !.pages[fr.id].keys = <<Get(p.keys, fr.anchor)>> \o @,
                  !.pages[fr.id].children = <<Last(l.children)>> \o @,
                  !.pages[sibling].keys = Front(@),
                  !.pages[sibling].children = Front(@),
                  !.pages[fr.parent].keys = SetAt(@, fr.anchor, Last(l.keys))]

internal_take_key_from_right(t, fr, sibling) ==
    LET r == t.pages[sibling]
        p == t.pages[fr.parent]
    IN  [t EXCEPT !.pages[fr.id].keys = Append(@, Get(p.keys, fr.anchor + 1)),
                  !.pages[fr.id].children = Append(@, Head(r.children)),
                  !.pages[sibling].keys = Tail(@),
                  !.pages[sibling].children = Tail(@),
                  !.pages[fr.parent].keys = SetAt(@, fr.anchor + 1, Head(r.keys))]

internal_merge_into_left(t, fr, sibling) ==
    LET p == t.pages[fr.parent]
    IN  [t EXCEPT !.pages[sibling].keys =
                      @ \o <<Get(p.keys, fr.anchor)>> \o t.pages[fr.id].keys,
                  !.pages[sibling].children = @ \o t.pages[fr.id].children]

internal_merge_into_self(t, fr, sibling) ==
    LET p == t.pages[fr.parent]
    IN  [t EXCEPT !.pages[fr.id].keys =
                      @ \o <<Get(p.keys, fr.anchor + 1)>> \o t.pages[sibling].keys,
                  !.pages[fr.id].children = @ \o t.pages[sibling].children]

\* the rebalance arms of delete_async (leaf) and delete_internal (internal):
\* the transaction after the operation and the anchor to delete in the parent,
\* None when the parent is settled
rebalance_leaf(t, fr) ==
    The({
      CASE kind = "TakeFromLeft" ->
             The({ [t |-> leaf_take_key_from_left(l.t, fr, l.id), recurse |-> None,
                    err |-> "Ok"]
                   : l \in {mut_left_sibling(t, fr)} })
        [] kind = "TakeFromRight" ->
             The({ [t |-> leaf_take_key_from_right(r.t, fr, r.id), recurse |-> None,
                    err |-> "Ok"]
                   : r \in {mut_right_sibling(t, fr)} })
        [] kind = "MergeIntoLeft" ->
             The({ [t |-> delete_node(leaf_merge_into_left(l.t, fr, l.id), fr.id),
                    recurse |-> fr.anchor, err |-> "Ok"]
                   : l \in {mut_left_sibling(t, fr)} })
        [] kind = "MergeIntoSelf" ->
             The({ [t |-> delete_node(leaf_merge_into_self(r.t, fr, r.id), r.id),
                    recurse |-> IF fr.anchor = None THEN 0 ELSE fr.anchor + 1,
                    err |-> "Ok"]
                   : r \in {mut_right_sibling(t, fr)} })
        [] OTHER -> [t |-> t, recurse |-> None, err |-> "InvariantViolation"]
      : kind \in {rebalance(t.pages, fr, leaf_lower_bound)} })

rebalance_internal(t, fr) ==
    The({
      CASE kind = "TakeFromLeft" ->
             The({ [t |-> internal_take_key_from_left(l.t, fr, l.id), recurse |-> None,
                    err |-> "Ok"]
                   : l \in {mut_left_sibling(t, fr)} })
        [] kind = "TakeFromRight" ->
             The({ [t |-> internal_take_key_from_right(r.t, fr, r.id), recurse |-> None,
                    err |-> "Ok"]
                   : r \in {mut_right_sibling(t, fr)} })
        [] kind = "MergeIntoLeft" ->
             The({ [t |-> delete_node(internal_merge_into_left(l.t, fr, l.id), fr.id),
                    recurse |-> fr.anchor, err |-> "Ok"]
                   : l \in {mut_left_sibling(t, fr)} })
        [] kind = "MergeIntoSelf" ->
             The({ [t |-> delete_node(internal_merge_into_self(r.t, fr, r.id), r.id),
                    recurse |-> IF fr.anchor = None THEN 0 ELSE fr.anchor + 1,
                    err |-> "Ok"]
                   : r \in {mut_right_sibling(t, fr)} })
        [] OTHER -> [t |-> t, recurse |-> None, err |-> "InvariantViolation"]
      : kind \in {rebalance(t.pages, fr, internal_lower_bound)} })

\* the root case of delete_internal: an emptied internal root is replaced by
\* children().get(anchor), anchor being the argument of delete_internal.
\* With anchor # 0 the debug assertion fails and get reads past the one
\* child left: ub is what the build makes of it, NullPage for a panic, else
\* the PageId read
promote_child(t, root_id, anchor, ub) ==
    LET root == t.pages[root_id]
    IN  IF Len(root.keys) # 0 THEN [t |-> t, err |-> "Ok", ub |-> FALSE]
        ELSE IF anchor < Len(root.children)
        THEN [t |-> set_root(t, Get(root.children, anchor)), err |-> "Ok", ub |-> FALSE]
        ELSE IF ub = NullPage THEN [t |-> t, err |-> "panic", ub |-> TRUE]
        ELSE [t |-> set_root(t, ub), err |-> "Ok", ub |-> TRUE]

\* BTree::delete_internal: the loop over the remaining frames, parent first
RECURSIVE delete_internal(_, _, _, _, _)
delete_internal(anchor, anchor_to_delete, t, stack, ub) ==
    IF stack = <<>> THEN [t |-> t, err |-> "Ok", ub |-> FALSE]
    ELSE The({
           LET fr == Last(stack)
               t1 == [t EXCEPT !.pages[fr.id] = st.node]
           IN  IF st.status = "Ok" THEN [t |-> t1, err |-> "Ok", ub |-> FALSE]
               ELSE IF fr.parent = NullPage THEN promote_child(t1, fr.id, anchor, ub)
               ELSE The({
                      IF rb.err # "Ok" THEN [t |-> rb.t, err |-> rb.err, ub |-> FALSE]
                      ELSE IF rb.recurse = None
                      THEN [t |-> rb.t, err |-> "Ok", ub |-> FALSE]
                      ELSE delete_internal(anchor, rb.recurse, rb.t, Front(stack), ub)
                      : rb \in {rebalance_internal(t1, fr)} })
           : st \in {delete_key_children(t.pages[Last(stack).id], anchor_to_delete)} })

\* BTree::delete_async
delete_async(t, key, ub) ==
    The({
      The({
        LET fr == Last(backtrack.stack)
            t1 == [backtrack.t EXCEPT !.pages[fr.id] = st.node]
        IN  IF st.status = "KeyNotFound"
            THEN [t |-> backtrack.t, err |-> "KeyNotFound", ub |-> FALSE]
            ELSE IF st.status = "Ok" THEN [t |-> t1, err |-> "Ok", ub |-> FALSE]
            ELSE IF fr.parent = NullPage THEN [t |-> t1, err |-> "Ok", ub |-> FALSE]
            ELSE The({
                   IF rb.err # "Ok" THEN [t |-> rb.t, err |-> rb.err, ub |-> FALSE]
                   ELSE IF rb.recurse = None
                   THEN [t |-> rb.t, err |-> "Ok", ub |-> FALSE]
                   ELSE delete_internal(rb.recurse, rb.recurse, rb.t,
                                        Front(backtrack.stack), ub)
                   : rb \in {rebalance_leaf(t1, fr)} })
        : st \in {leaf_delete(backtrack.t.pages[Last(backtrack.stack).id], key)} })
      : backtrack \in {new_search_for(t, key)} })

(***************************************************************************)
(* Range iterator.                                                         *)
(***************************************************************************)
\* BTreeIterator::new: the starting leaf, the path leading to it, and the
\* starting position in the leaf
RECURSIVE BTreeIterator_new(_, _, _, _)
BTreeIterator_new(ps, current, start, stack) ==
    LET node  == ps[current]
        pivot == upper_pivot(node, start)
        bs    == binary_search(node.keys, start)
    IN  IF node.tag = "Internal"
        THEN BTreeIterator_new(ps, Get(node.children, pivot), start,
                               Append(stack, <<current, pivot>>))
        ELSE [stack |-> stack, current_leaf |-> current,
              current_position |-> IF bs.ok THEN bs.pos ELSE bs.pos + 1]

\* BTreeIterator::descend_leftmost
RECURSIVE descend_leftmost(_, _, _)
descend_leftmost(ps, it, current) ==
    IF ps[current].tag = "Internal"
    THEN descend_leftmost(ps, [it EXCEPT !.stack = Append(@, <<current, 0>>)],
                          Get(ps[current].children, 0))
    ELSE [it EXCEPT !.current_leaf = current, !.current_position = 0]

\* BTreeIterator::next: the next value and the iterator after it, None at the end
RECURSIVE iterator_next(_, _, _)
RECURSIVE move_to_right_sibling(_, _, _)
\* next yielding the key equal to the end of the range as well
iterator_next_end_inclusive(ps, it, stop) ==
    LET leaf == ps[it.current_leaf]
        key  == TryGet(leaf.keys, it.current_position)
    IN  IF key = None THEN move_to_right_sibling(ps, it, stop)
        ELSE IF key <= stop
        THEN [it |-> [it EXCEPT !.current_position = @ + 1],
              v |-> Get(leaf.values, it.current_position)]
        ELSE [it |-> it, v |-> None]

iterator_next(ps, it, stop) ==
    LET leaf == ps[it.current_leaf]
        key  == TryGet(leaf.keys, it.current_position)
    IN  IF key = None THEN move_to_right_sibling(ps, it, stop)
        ELSE IF key < stop
        THEN [it |-> [it EXCEPT !.current_position = @ + 1],
              v |-> Get(leaf.values, it.current_position)]
        ELSE [it |-> it, v |-> None]

move_to_right_sibling(ps, it, stop) ==
    IF it.stack = <<>> THEN [it |-> it, v |-> None]
    ELSE LET internal_node == Last(it.stack)[1]
             next   == Last(it.stack)[2] + 1
             child  == TryGet(ps[internal_node].children, next)
             popped == [it EXCEPT !.stack = Front(@)]
             pushed == [it EXCEPT !.stack = Append(Front(@), <<internal_node, next>>)]
         IN  IF child # None
             THEN The({ iterator_next(ps, d, stop)
                        : d \in {descend_leftmost(ps, pushed, child)} })
             ELSE move_to_right_sibling(ps, popped, stop)

\* BTree::range collected: every value the iterator yields, in order
RECURSIVE collect(_, _, _, _)
collect(ps, it, stop, acc) ==
    The({ IF n.v = None THEN acc ELSE collect(ps, n.it, stop, Append(acc, n.v))
          : n \in {iterator_next(ps, it, stop)} })

range(ps, root, start, end) ==
    collect(ps, BTreeIterator_new(ps, root, start, <<>>), end, <<>>)

(***************************************************************************)
(* What a tree holds: the pairs of its leaves, left to right.              *)
(***************************************************************************)
RECURSIVE concat_entries(_, _, _)
RECURSIVE entries(_, _)
entries(ps, id) ==
    IF ps[id].tag = "Leaf"
    THEN [i \in 1..Len(ps[id].keys) |-> <<ps[id].keys[i], ps[id].values[i]>>]
    ELSE concat_entries(ps, ps[id].children, 1)

concat_entries(ps, cs, i) ==
    IF i > Len(cs) THEN <<>> ELSE entries(ps, cs[i]) \o concat_entries(ps, cs, i + 1)

Elems(f) == {f[i] : i \in DOMAIN f}

content(ps, root) == Elems(entries(ps, root))

\* the value a set of pairs gives a key, None when it has none
value_of(m, key) ==
    IF \E e \in m : e[1] = key THEN (CHOOSE e \in m : e[1] = key)[2] ELSE None

RECURSIVE sorted_seq(_)
sorted_seq(S) ==
    IF S = {} THEN <<>>
    ELSE The({ <<x>> \o sorted_seq(S \ {x})
               : x \in {CHOOSE y \in S : \A z \in S : y <= z} })

\* the values of the pairs of m with start <= key < end, by ascending key
expected_range(m, start, end) ==
    LET ks == sorted_seq({e[1] : e \in {e \in m : start <= e[1] /\ e[1] < end}})
    IN  [i \in 1..Len(ks) |-> value_of(m, ks[i])]

(***************************************************************************)
(* Version manager.                                                        *)
(***************************************************************************)
\* history: the pairs of the latest committed version
committed == hist[Len(hist)]

NoTx == [root |-> NullPage, fresh |-> {}, shadowed |-> {}, model |-> {}]

\* the write transaction as the record the tree operations work on
T == [pages |-> pages, next_page |-> page_manager.next_page,
      free_pages |-> page_manager.free_pages, root |-> tx.root,
      fresh |-> tx.fresh, shadowed |-> tx.shadowed]

\* the state a tree operation leaves, m the pairs the transaction now holds
store(t, m) ==
    /\ pages' = t.pages
    /\ page_manager' = [next_page |-> t.next_page, free_pages |-> t.free_pages]
    /\ tx' = [root |-> t.root, fresh |-> t.fresh, shadowed |-> t.shadowed,
              model |-> m]

\* TransactionManager::insert_transaction: take the writer slot, start from
\* the published root
insert_transaction(w) ==
    /\ writer = 0
    /\ writer' = w
    /\ tx' = [root |-> latest_version.root, fresh |-> {}, shadowed |-> {},
              model |-> hist[Len(hist)]]

\* WriteTransaction::commit: publish the root under the next version, tag the
\* superseded pages with it, release the writer slot
commit ==
    /\ latest_version' = [root |-> tx.root, version |-> latest_version.version + 1]
    /\ versions' = Append(versions, [version |-> latest_version.version + 1,
                                     pages |-> tx.shadowed])
    /\ unpublished' = TRUE
    /\ hist' = Append(hist, tx.model)
    /\ writer' = 0
    /\ tx' = NoTx

\* a write transaction dropped before commit: its pages return to the free
\* list at once, nothing it superseded is released
drop_transaction(t) ==
    /\ pages' = t.pages
    /\ page_manager' = [next_page |-> t.next_page,
                        free_pages |-> t.free_pages \o sorted_seq(t.fresh)]
    /\ writer' = 0
    /\ tx' = NoTx

\* ReadTransaction: the versions live read transactions pin
live_versions == {rd[r].version : r \in {x \in DOMAIN rd : rd[x].pc # "idle"}}

\* a bucket graduating whatever the live readers are
releasable_at_once(b) == TRUE

\* a bucket graduating when the live readers are at its version or later
releasable_at_version(b) == \A v \in live_versions : v >= b.version

\* a bucket graduates when every live reader has a version greater than its own
releasable(b) == \A v \in live_versions : v > b.version

RECURSIVE released_pages(_)
released_pages(bs) ==
    IF bs = <<>> THEN <<>>
    ELSE (IF releasable(Head(bs)) THEN sorted_seq(Head(bs).pages) ELSE <<>>)
         \o released_pages(Tail(bs))

not_releasable(b) == ~releasable(b)

\* TransactionManager::collect_pending: the metadata of the latest commit,
\* with the graduated pages in the free list
collect_pending ==
    [some |-> unpublished,
     versions |-> SelectSeq(versions, not_releasable),
     new_metadata |-> [root |-> latest_version.root,
                       next_page |-> page_manager.next_page,
                       free_pages |-> page_manager.free_pages
                                      \o released_pages(versions)]]

(***************************************************************************)
(* The metadata file and the static settings file.                         *)
(***************************************************************************)
\* Metadata::write at the file's position: root, next_page, the length of the
\* free list, the free list; the words the file holds after them stay
Metadata_write(file, m) ==
    LET ws == <<m.root, m.next_page, Len(m.free_pages)>> \o m.free_pages
    IN  ws \o SubSeq(file, Len(ws) + 1, Len(file))

\* Metadata::read from offset 0: ok is FALSE where the file ends before the
\* preamble or the free list does
Metadata_read(file) ==
    IF Len(file) < 3 \/ Len(file) < 3 + file[3]
    THEN [ok |-> FALSE, root |-> NullPage, next_page |-> 0, free_pages |-> <<>>]
    ELSE [ok |-> TRUE, root |-> file[1], next_page |-> file[2],
          free_pages |-> SubSeq(file, 4, 3 + file[3])]

\* StaticSettings::write / StaticSettings::read
StaticSettings_write(settings) ==
    <<settings.leaf_capacity, settings.internal_capacity>>

StaticSettings_read(file) ==
    [leaf_capacity |-> file[1], internal_capacity |-> file[2]]

(***************************************************************************)
(* The facade's operations, by thread.                                     *)
(***************************************************************************)
Idle == [pc |-> "idle", op |-> "none", items |-> <<>>, result |-> "none",
         pre |-> [root |-> NullPage, version |-> 0], pre_entries |-> <<>>]

call(w, op, pc, items) ==
    th' = [th EXCEPT ![w] = [pc |-> pc, op |-> op, items |-> items,
                             result |-> "none", pre |-> latest_version,
                             pre_entries |-> entries(pages, latest_version.root)]]

return(w) == th' = [th EXCEPT ![w] = Idle]

\* a checkpoint without its last assignment, guard.0 = new_metadata
checkpoint_keeping_guard ==
    LET c == collect_pending
    IN  /\ writer = 0
        /\ versions' = c.versions
        /\ page_manager' = [page_manager EXCEPT !.free_pages = c.new_metadata.free_pages]
        /\ IF c.some
           THEN /\ metadata_file' = Metadata_write(metadata_file, c.new_metadata)
                /\ metadata' = metadata
                /\ checkpointed' = [root |-> latest_version.root, pairs |-> committed]
                /\ disk' = [pages |-> pages, metadata |-> metadata_file']
                /\ unpublished' = FALSE
           ELSE UNCHANGED <<metadata_file, checkpointed, disk, metadata, unpublished>>

\* BTree::checkpoint.  collect_pending reads and updates what the version
\* manager guards with the writer slot, so it runs between write transactions
checkpoint ==
    LET c == collect_pending
    IN  /\ writer = 0
        /\ versions' = c.versions
        /\ page_manager' = [page_manager EXCEPT !.free_pages = c.new_metadata.free_pages]
        /\ IF c.some
           THEN /\ metadata_file' = Metadata_write(metadata_file, c.new_metadata)
                /\ metadata' = c.new_metadata
                /\ checkpointed' = [root |-> latest_version.root, pairs |-> committed]
                /\ disk' = [pages |-> pages, metadata |-> metadata_file']
                /\ unpublished' = FALSE
           ELSE UNCHANGED <<metadata_file, checkpointed, disk, metadata, unpublished>>

\* insert_async starting its write transaction without waiting for the slot
InsertAsync_unlocked(w, key, value) ==
    /\ th[w].pc = "idle"
    /\ writer' = w
    /\ tx' = [root |-> latest_version.root, fresh |-> {}, shadowed |-> {},
              model |-> hist[Len(hist)]]
    /\ call(w, "insert_async", "insert", <<<<key, value>>>>)
    /\ calls' = calls + 1
    /\ UNCHANGED <<pages, page_manager, latest_version, versions, unpublished,
                   metadata, metadata_file, checkpointed, disk, static_settings, static_settings_file, bt, rd, hist>>

\* BTree::insert_async, from the call to the writer slot
InsertAsync(w, key, value) ==
    /\ th[w].pc = "idle"
    /\ insert_transaction(w)
    /\ call(w, "insert_async", "insert", <<<<key, value>>>>)
    /\ calls' = calls + 1
    /\ UNCHANGED <<pages, page_manager, latest_version, versions, unpublished,
                   metadata, metadata_file, checkpointed, disk, static_settings, static_settings_file, bt, rd, hist>>

\* BTree::insert_one
InsertOne(w, key, value) ==
    /\ th[w].pc = "idle"
    /\ insert_transaction(w)
    /\ call(w, "insert_one", "insert", <<<<key, value>>>>)
    /\ calls' = calls + 1
    /\ UNCHANGED <<pages, page_manager, latest_version, versions, unpublished,
                   metadata, metadata_file, checkpointed, disk, static_settings, static_settings_file, bt, rd, hist>>

\* BTree::insert_many
InsertMany(w, iter) ==
    /\ th[w].pc = "idle"
    /\ insert_transaction(w)
    /\ call(w, "insert_many", IF iter = <<>> THEN "commit" ELSE "insert", iter)
    /\ calls' = calls + 1
    /\ UNCHANGED <<pages, page_manager, latest_version, versions, unpublished,
                   metadata, metadata_file, checkpointed, disk, static_settings, static_settings_file, bt, rd, hist>>

\* the error of a pair ignored: the batch goes on with the pairs that are left
TxInsert_skipping_errors(w) ==
    /\ writer = w
    /\ th[w].pc = "insert"
    /\ \E r \in {insert(T, Head(th[w].items)[1], Head(th[w].items)[2])} :
          /\ store(r.t, IF r.err = "Ok" THEN tx.model \cup {Head(th[w].items)}
                                         ELSE tx.model)
          /\ th' = [th EXCEPT ![w].items = Tail(@),
                              ![w].pc = IF Len(th[w].items) = 1
                                        THEN "commit" ELSE "insert"]
    /\ UNCHANGED <<latest_version, versions, unpublished, metadata, metadata_file, checkpointed, disk,
                   static_settings, static_settings_file, bt, writer, rd, hist, calls>>

\* self.insert(&mut tx, key, value)? of insert_async / insert_many: on an
\* error the call is left with it
TxInsert(w) ==
    /\ writer = w
    /\ th[w].pc = "insert"
    /\ \E r \in {insert(T, Head(th[w].items)[1], Head(th[w].items)[2])} :
          IF r.err = "Ok"
          THEN /\ store(r.t, tx.model \cup {Head(th[w].items)})
               /\ th' = [th EXCEPT ![w].items = Tail(@),
                                   ![w].pc = IF Len(th[w].items) = 1
                                             THEN "commit" ELSE "insert"]
          ELSE /\ store(r.t, tx.model)
               /\ th' = [th EXCEPT ![w].pc = "failed", ![w].result = r.err]
    /\ UNCHANGED <<latest_version, versions, unpublished, metadata, metadata_file, checkpointed, disk,
                   static_settings, static_settings_file, bt, writer, rd, hist, calls>>

\* the error ignored: the write transaction committed all the same
TxDrop_committing(w) ==
    /\ writer = w
    /\ th[w].pc = "failed"
    /\ commit
    /\ return(w)
    /\ UNCHANGED <<pages, page_manager, metadata, metadata_file, checkpointed, disk,
                   static_settings, static_settings_file, bt, rd, calls>>

\* the return of an error: the write transaction is dropped without commit
TxDrop(w) ==
    /\ writer = w
    /\ th[w].pc = "failed"
    /\ drop_transaction(T)
    /\ IF th[w].result = "panic"
       THEN th' = [th EXCEPT ![w] = [Idle EXCEPT !.pc = "panicked"]]
       ELSE return(w)
    /\ UNCHANGED <<latest_version, versions, unpublished, metadata, metadata_file, checkpointed, disk,
                   static_settings, static_settings_file, bt, rd, hist, calls>>

\* BTree::delete, from the call to the writer slot
Delete(w, key) ==
    /\ th[w].pc = "idle"
    /\ insert_transaction(w)
    /\ call(w, "delete", "delete", <<<<key, None>>>>)
    /\ calls' = calls + 1
    /\ UNCHANGED <<pages, page_manager, latest_version, versions, unpublished,
                   metadata, metadata_file, checkpointed, disk, static_settings, static_settings_file, bt, rd, hist>>

\* let result = self.delete_async(key, &mut tx) of delete: whatever the
\* result, the commit follows; a panic unwinds and drops the transaction
TxDelete(w) ==
    /\ writer = w
    /\ th[w].pc = "delete"
    /\ \E r0 \in {delete_async(T, Head(th[w].items)[1], NullPage)} :
        \E ub \in {NullPage} \cup (IF r0.ub THEN DOMAIN pages ELSE {}) :
        \E r \in {delete_async(T, Head(th[w].items)[1], ub)} :
          IF r.err = "panic"
          THEN /\ store(r.t, tx.model)
               /\ th' = [th EXCEPT ![w].pc = "failed", ![w].result = r.err]
          ELSE /\ store(r.t, {e \in tx.model : e[1] # Head(th[w].items)[1]})
               /\ th' = [th EXCEPT ![w].pc = "commit", ![w].result = r.err]
    /\ UNCHANGED <<latest_version, versions, unpublished, metadata, metadata_file, checkpointed, disk,
                   static_settings, static_settings_file, bt, writer, rd, hist, calls>>

\* a commit that keeps the writer slot after publishing
TxCommit_holding_writer(w) ==
    /\ writer = w
    /\ th[w].pc = "commit"
    /\ latest_version' = [root |-> tx.root, version |-> latest_version.version + 1]
    /\ versions' = Append(versions, [version |-> latest_version.version + 1,
                                     pages |-> tx.shadowed])
    /\ unpublished' = TRUE
    /\ hist' = Append(hist, tx.model)
    /\ IF th[w].op \in {"insert_one", "insert_many"}
       THEN th' = [th EXCEPT ![w].pc = "checkpoint"]
       ELSE return(w)
    /\ UNCHANGED <<pages, page_manager, metadata, metadata_file, checkpointed, disk, static_settings, static_settings_file, bt,
                   writer, tx, rd, calls>>

\* tx.commit::<K>() of insert_async / insert_many / delete
TxCommit(w) ==
    /\ writer = w
    /\ th[w].pc = "commit"
    /\ commit
    /\ IF th[w].op \in {"insert_one", "insert_many"}
       THEN th' = [th EXCEPT ![w].pc = "checkpoint"]
       ELSE return(w)
    /\ UNCHANGED <<pages, page_manager, metadata, metadata_file, checkpointed, disk, static_settings, static_settings_file, bt,
                   rd, calls>>

\* self.checkpoint()? of insert_one / insert_many
TxCheckpoint(w) ==
    /\ th[w].pc = "checkpoint"
    /\ checkpoint
    /\ return(w)
    /\ UNCHANGED <<pages, latest_version, static_settings, static_settings_file, bt, writer, tx, rd, hist,
                   calls>>

\* BTree::checkpoint called on its own
Checkpoint(w) ==
    /\ th[w].pc = "idle"
    /\ checkpoint
    /\ calls' = calls + 1
    /\ UNCHANGED <<pages, latest_version, static_settings, static_settings_file, bt, writer, tx, th, rd, hist>>

(***************************************************************************)
(* insert and delete frame by frame: the descent that builds the           *)
(* backtrack, the mutation of the leaf, then one frame of the backtrack    *)
(* for each turn of the loop of insert_in_internals / delete_internal.     *)
(***************************************************************************)
NoDescent == [phase |-> "Idle", stack |-> <<>>, consumed |-> <<>>, carry |-> <<>>,
              why |-> "none", err |-> "none", ub |-> FALSE, start |-> <<>>]

outcome(t, phase, carry, why, err) ==
    [t |-> t, phase |-> phase, carry |-> carry, why |-> why, err |-> err, ub |-> FALSE]

\* a leaf split that hands the parent the first key of the split leaf
insert_leaf_step_first_key(t, stack, key, value) ==
    The({
      IF il.err # "Ok" THEN outcome(il.t, "Done", <<>>, "error", il.err)
      ELSE IF ~il.update THEN outcome(il.t, "Done", <<>>, "settled", "Ok")
      ELSE The({
             IF Len(stack) > 1
             THEN outcome(a.t, "Propagating",
                          <<Head(a.t.pages[Last(stack).id].keys), a.id>>, "none", "Ok")
             ELSE outcome(new_root(a.t, create_internal_node(Last(stack).id, a.id,
                                                             il.split_key)),
                          "Done", <<>>, "new_root", "Ok")
             : a \in {add_new_node(il.t, il.new_node)} })
      : il \in {insert_in_leaf(t, Last(stack).id, key, value)} })

\* BTree::insert after new_search_for: the leaf frame
insert_leaf_step(t, stack, key, value) ==
    The({
      IF il.err # "Ok" THEN outcome(il.t, "Done", <<>>, "error", il.err)
      ELSE IF ~il.update THEN outcome(il.t, "Done", <<>>, "settled", "Ok")
      ELSE The({
             IF Len(stack) > 1
             THEN outcome(a.t, "Propagating", <<il.split_key, a.id>>, "none", "Ok")
             ELSE outcome(new_root(a.t, create_internal_node(Last(stack).id, a.id,
                                                             il.split_key)),
                          "Done", <<>>, "new_root", "Ok")
             : a \in {add_new_node(il.t, il.new_node)} })
      : il \in {insert_in_leaf(t, Last(stack).id, key, value)} })

\* BTree::insert_in_internals: one turn of the loop, on the last frame
insert_internal_step(t, stack, carry) ==
    The({
      IF st.status = "Ok"
      THEN outcome([t EXCEPT !.pages[Last(stack).id] = st.node],
                   "Done", <<>>, "settled", "Ok")
      ELSE IF st.status # "Split" THEN outcome(t, "Done", <<>>, "error", "unreachable")
      ELSE The({
             IF Len(stack) > 1
             THEN outcome(a.t, "Propagating", <<st.split_key, a.id>>, "none", "Ok")
             ELSE outcome(new_root(a.t, create_internal_node(Last(stack).id, a.id,
                                                             st.split_key)),
                          "Done", <<>>, "new_root", "Ok")
             : a \in {add_new_node([t EXCEPT !.pages[Last(stack).id] = st.node],
                                   st.right)} })
      : st \in {internal_insert(t.pages[Last(stack).id], carry[1], carry[2])} })

\* BTree::delete_async after new_search_for: the leaf frame; the carry is
\* the argument anchor of delete_internal and its anchor_to_delete
delete_leaf_step(t, stack, key) ==
    The({
      LET fr == Last(stack)
          t1 == [t EXCEPT !.pages[fr.id] = st.node]
      IN  IF st.status = "KeyNotFound"
          THEN outcome(t, "Done", <<>>, "error", "KeyNotFound")
          ELSE IF st.status = "Ok" THEN outcome(t1, "Done", <<>>, "settled", "Ok")
          ELSE IF fr.parent = NullPage
          THEN outcome(t1, "Done", <<>>, "root_underfull", "Ok")
          ELSE The({
                 IF rb.err # "Ok" THEN outcome(rb.t, "Done", <<>>, "error", rb.err)
                 ELSE IF rb.recurse = None
                 THEN outcome(rb.t, "Done", <<>>, "settled", "Ok")
                 ELSE outcome(rb.t, "Propagating", <<rb.recurse, rb.recurse>>,
                              "none", "Ok")
                 : rb \in {rebalance_leaf(t1, fr)} })
      : st \in {leaf_delete(t.pages[Last(stack).id], key)} })

\* BTree::delete_internal: one turn of the loop, on the last frame
delete_internal_step(t, stack, carry, ub) ==
    The({
      LET fr == Last(stack)
          t1 == [t EXCEPT !.pages[fr.id] = st.node]
      IN  IF st.status = "Ok" THEN outcome(t1, "Done", <<>>, "settled", "Ok")
          ELSE IF fr.parent = NullPage
          THEN The({ [t |-> pc.t,
                      phase |-> IF pc.err = "panic" THEN "Panicked" ELSE "Done",
                      carry |-> <<>>,
                      why |-> IF Len(t1.pages[fr.id].keys) # 0
                              THEN "root_underfull" ELSE "root_promoted",
                      err |-> pc.err, ub |-> pc.ub]
                     : pc \in {promote_child(t1, fr.id, carry[1], ub)} })
          ELSE The({
                 IF rb.err # "Ok" THEN outcome(rb.t, "Done", <<>>, "error", rb.err)
                 ELSE IF rb.recurse = None
                 THEN outcome(rb.t, "Done", <<>>, "settled", "Ok")
                 ELSE outcome(rb.t, "Propagating", <<carry[1], rb.recurse>>,
                              "none", "Ok")
                 : rb \in {rebalance_internal(t1, fr)} })
      : st \in {delete_key_children(t.pages[Last(stack).id], carry[2])} })

consume(r) ==
    bt' = [bt EXCEPT !.phase = r.phase, !.stack = Front(@),
                     !.consumed = Append(@, Last(bt.stack)),
                     !.carry = r.carry, !.why = r.why, !.err = r.err, !.ub = r.ub]

\* InsertBacktrack::new_search_for / DeleteBacktrack::new_search_for
Descend(w) ==
    /\ writer = w
    /\ th[w].pc \in {"insert", "delete"}
    /\ bt.phase = "Idle"
    /\ \E b \in {new_search_for(T, Head(th[w].items)[1])} :
          /\ store(b.t, tx.model)
          /\ bt' = [NoDescent EXCEPT !.phase = "MutatingLeaf", !.stack = b.stack,
                                     !.start = T]
    /\ UNCHANGED <<latest_version, versions, unpublished, metadata, metadata_file,
                   checkpointed, disk, static_settings, static_settings_file,
                   writer, th, rd, hist, calls>>

\* backtrack.get_next(), the leaf, and what insert / delete_async do to it
MutateLeaf(w) ==
    /\ writer = w
    /\ bt.phase = "MutatingLeaf"
    /\ \E r \in {IF th[w].pc = "insert"
                  THEN insert_leaf_step(T, bt.stack, Head(th[w].items)[1],
                                        Head(th[w].items)[2])
                  ELSE delete_leaf_step(T, bt.stack, Head(th[w].items)[1])} :
          /\ store(r.t, tx.model)
          /\ consume(r)
    /\ UNCHANGED <<latest_version, versions, unpublished, metadata, metadata_file,
                   checkpointed, disk, static_settings, static_settings_file,
                   writer, th, rd, hist, calls>>

\* one turn of the loop of insert_in_internals / delete_internal
Propagate(w) ==
    /\ writer = w
    /\ bt.phase = "Propagating"
    /\ IF th[w].pc = "insert"
       THEN \E r \in {insert_internal_step(T, bt.stack, bt.carry)} :
               store(r.t, tx.model) /\ consume(r)
       ELSE \E r0 \in {delete_internal_step(T, bt.stack, bt.carry, NullPage)} :
            \E ub \in {NullPage} \cup (IF r0.ub THEN DOMAIN bt.start.pages ELSE {}) :
            \E r \in {delete_internal_step(T, bt.stack, bt.carry, ub)} :
               store(r.t, tx.model) /\ consume(r)
    /\ UNCHANGED <<latest_version, versions, unpublished, metadata, metadata_file,
                   checkpointed, disk, static_settings, static_settings_file,
                   writer, th, rd, hist, calls>>

\* the return of insert / delete_async into insert_async, insert_many, delete
Finish(w) ==
    /\ writer = w
    /\ bt.phase = "Done"
    /\ IF th[w].pc = "insert"
       THEN IF bt.err = "Ok"
            THEN /\ tx' = [tx EXCEPT !.model = @ \cup {Head(th[w].items)}]
                 /\ th' = [th EXCEPT ![w].items = Tail(@),
                                     ![w].pc = IF Len(th[w].items) = 1
                                               THEN "commit" ELSE "insert"]
            ELSE /\ tx' = tx
                 /\ th' = [th EXCEPT ![w].pc = "failed", ![w].result = bt.err]
       ELSE /\ tx' = [tx EXCEPT !.model = {e \in @ : e[1] # Head(th[w].items)[1]}]
            /\ th' = [th EXCEPT ![w].pc = "commit", ![w].result = bt.err]
    /\ bt' = NoDescent
    /\ UNCHANGED <<pages, page_manager, latest_version, versions, unpublished,
                   metadata, metadata_file, checkpointed, disk, static_settings,
                   static_settings_file, writer, rd, hist, calls>>

\* the panic of the root arm of delete_internal unwinding through delete
Unwind(w) ==
    /\ writer = w
    /\ bt.phase = "Panicked"
    /\ th' = [th EXCEPT ![w].pc = "failed", ![w].result = "panic"]
    /\ bt' = NoDescent
    /\ UNCHANGED <<pages, page_manager, latest_version, versions, unpublished,
                   metadata, metadata_file, checkpointed, disk, static_settings,
                   static_settings_file, writer, tx, rd, hist, calls>>

(***************************************************************************)
(* BTree::checkpoint statement by statement: each `?` returns the IoError  *)
(* of its call or goes on.                                                 *)
(***************************************************************************)
\* Metadata::write that fails after n words
Metadata_write_failing(file, m, n) ==
    LET ws == <<m.root, m.next_page, Len(m.free_pages)>> \o m.free_pages
    IN  SubSeq(ws, 1, n) \o SubSeq(file, n + 1, Len(file))

returned(w, result) == th' = [th EXCEPT ![w] = [Idle EXCEPT !.result = result]]

new_metadata_of(w) == Head(th[w].items)

\* if let Some(checkpoint) = self.transaction_manager.collect_pending():
\* what the version manager hands over is pending no longer, the graduated
\* pages are in the free list of the next write transaction
CheckpointCollect(w) ==
    LET c == collect_pending
    IN  /\ th[w].pc = "idle"
        /\ writer = 0
        /\ versions' = c.versions
        /\ page_manager' = [page_manager EXCEPT !.free_pages = c.new_metadata.free_pages]
        /\ unpublished' = FALSE
        /\ IF c.some
           THEN call(w, "checkpoint", "sync_file", <<c.new_metadata>>)
           ELSE returned(w, "Ok")
        /\ calls' = calls + 1
        /\ UNCHANGED <<pages, latest_version, metadata, metadata_file, checkpointed, disk,
                       static_settings, static_settings_file, bt, writer, tx, rd, hist>>

\* self.pages.sync_file()?
CheckpointSyncFile(w, ok) ==
    /\ th[w].pc = "sync_file"
    /\ IF ok
       THEN /\ disk' = [disk EXCEPT !.pages = pages]
            /\ th' = [th EXCEPT ![w].pc = "write"]
       ELSE /\ disk' = disk
            /\ returned(w, "IoError")
    /\ UNCHANGED <<pages, page_manager, latest_version, versions, unpublished,
                   metadata, metadata_file, checkpointed, static_settings, static_settings_file, bt,
                   writer, tx, rd, hist, calls>>

\* metadata_file.seek(SeekFrom::Start(0))?; new_metadata.write(metadata_file)?
\* an error leaves the n words written before it (none when seek fails)
CheckpointWrite(w, ok) ==
    /\ th[w].pc = "write"
    /\ IF ok
       THEN /\ metadata_file' = Metadata_write(metadata_file, new_metadata_of(w))
            /\ th' = [th EXCEPT ![w].pc = "sync_all"]
       ELSE /\ \E n \in 0..(3 + Len(new_metadata_of(w).free_pages)) :
                  metadata_file' = Metadata_write_failing(metadata_file,
                                                          new_metadata_of(w), n)
            /\ returned(w, "IoError")
    /\ UNCHANGED <<pages, page_manager, latest_version, versions, unpublished,
                   metadata, checkpointed, disk, static_settings, static_settings_file, bt,
                   writer, tx, rd, hist, calls>>

\* metadata_file.sync_all()?; guard.0 = new_metadata; Ok(())
CheckpointSyncAll(w, ok) ==
    /\ th[w].pc = "sync_all"
    /\ IF ok
       THEN /\ disk' = [disk EXCEPT !.metadata = metadata_file]
            /\ metadata' = new_metadata_of(w)
            /\ checkpointed' = [root |-> new_metadata_of(w).root, pairs |-> committed]
            /\ returned(w, "Ok")
       ELSE /\ UNCHANGED <<disk, metadata, checkpointed>>
            /\ returned(w, "IoError")
    /\ UNCHANGED <<pages, page_manager, latest_version, versions, unpublished,
                   metadata_file, static_settings, static_settings_file, bt,
                   writer, tx, rd, hist, calls>>

(***************************************************************************)
(* Readers.                                                                *)
(***************************************************************************)
NoRead == [pc |-> "idle", root |-> NullPage, version |-> 0, key |-> None,
           start |-> None, end |-> None,
           it |-> [stack |-> <<>>, current_leaf |-> NullPage, current_position |-> 0],
           out |-> <<>>]

\* BTree::lookup: the read transaction captures the published root
Lookup(r, key) ==
    /\ rd[r].pc = "idle"
    /\ rd' = [rd EXCEPT ![r] = [NoRead EXCEPT !.pc = "lookup",
                                              !.root = latest_version.root,
                                              !.version = latest_version.version,
                                              !.key = key]]
    /\ UNCHANGED <<pages, page_manager, latest_version, versions, unpublished,
                   metadata, metadata_file, checkpointed, disk, static_settings, static_settings_file, bt, writer, tx, th, hist,
                   calls>>

\* BTree::lookup: the search from the captured root, the answer, the drop of
\* the read transaction
LookupReturn(r) ==
    /\ rd[r].pc = "lookup"
    /\ rd' = [rd EXCEPT ![r] = NoRead]
    /\ UNCHANGED <<pages, page_manager, latest_version, versions, unpublished,
                   metadata, metadata_file, checkpointed, disk, static_settings, static_settings_file, bt, writer, tx, th, hist,
                   calls>>

\* range reading the root of the write transaction in progress
RangeQuery_uncommitted(r, start, end) ==
    LET root == IF writer # 0 THEN tx.root ELSE latest_version.root
    IN  /\ rd[r].pc = "idle"
        /\ rd' = [rd EXCEPT ![r] =
                    [NoRead EXCEPT !.pc = "range", !.root = root,
                                   !.version = latest_version.version,
                                   !.start = start, !.end = end,
                                   !.it = BTreeIterator_new(pages, root, start, <<>>)]]
        /\ UNCHANGED <<pages, page_manager, latest_version, versions, unpublished,
                       metadata, metadata_file, checkpointed, disk, static_settings, static_settings_file, bt, writer, tx, th,
                       hist, calls>>

\* BTree::range: the read transaction and the iterator at its starting leaf
RangeQuery(r, start, end) ==
    /\ rd[r].pc = "idle"
    /\ rd' = [rd EXCEPT ![r] =
                [NoRead EXCEPT !.pc = "range",
                               !.root = latest_version.root,
                               !.version = latest_version.version,
                               !.start = start, !.end = end,
                               !.it = BTreeIterator_new(pages, latest_version.root,
                                                        start, <<>>)]]
    /\ UNCHANGED <<pages, page_manager, latest_version, versions, unpublished,
                   metadata, metadata_file, checkpointed, disk, static_settings, static_settings_file, bt, writer, tx, th, hist,
                   calls>>

\* one call of the iterator's next; at None the iterator is dropped
RangeNext(r) ==
    /\ rd[r].pc = "range"
    /\ \E n \in {iterator_next(pages, rd[r].it, rd[r].end)} :
          IF n.v = None
          THEN rd' = [rd EXCEPT ![r] = NoRead]
          ELSE rd' = [rd EXCEPT ![r].it = n.it, ![r].out = Append(@, n.v)]
    /\ UNCHANGED <<pages, page_manager, latest_version, versions, unpublished,
                   metadata, metadata_file, checkpointed, disk, static_settings, static_settings_file, bt, writer, tx, th, hist,
                   calls>>

(***************************************************************************)
(* The end of the process and the reopening of the files.                  *)
(***************************************************************************)
closed(w) == th[w].pc \in {"dropped", "exited", "open_failed"}

\* the tree as it was when the process left it, kept for the reopening
left(w, pc) ==
    th' = [th EXCEPT ![w] = [Idle EXCEPT !.pc = pc, !.pre = latest_version,
                                         !.pre_entries =
                                            entries(pages, latest_version.root)]]

\* a destructor writing the metadata of the latest commit
Drop_latest_commit(w) ==
    /\ \A x \in DOMAIN th : th[x].pc = "idle"
    /\ \A r \in DOMAIN rd : rd[r].pc = "idle"
    /\ metadata_file' = Metadata_write(metadata_file, collect_pending.new_metadata)
    /\ disk' = [disk EXCEPT !.pages = pages]
    /\ left(w, "dropped")
    /\ UNCHANGED <<pages, page_manager, latest_version, versions, unpublished,
                   metadata, checkpointed, static_settings, static_settings_file, bt,
                   writer, tx, rd, hist, calls>>

\* impl Drop for BTree: the in-memory metadata is written at offset 0 of the
\* metadata file, the page file is synced.  The tree is owned, so no call
\* and no read transaction is in progress
Drop(w) ==
    /\ \A x \in DOMAIN th : th[x].pc = "idle"
    /\ \A r \in DOMAIN rd : rd[r].pc = "idle"
    /\ metadata_file' = Metadata_write(metadata_file, metadata)
    /\ disk' = [disk EXCEPT !.pages = pages]
    /\ left(w, "dropped")
    /\ UNCHANGED <<pages, page_manager, latest_version, versions, unpublished,
                   metadata, checkpointed, static_settings, static_settings_file, bt,
                   writer, tx, rd, hist, calls>>

\* the process exits without running the destructor, at any point of a call:
\* the files keep what was written to them, the write transaction is gone
Exit(w) ==
    /\ ~closed(w) /\ th[w].pc # "panicked"
    /\ left(w, "exited")
    /\ writer' = 0
    /\ tx' = NoTx
    /\ UNCHANGED <<pages, page_manager, latest_version, versions, unpublished,
                   metadata, metadata_file, checkpointed, disk, static_settings,
                   static_settings_file, bt, rd, hist, calls>>

\* an open reading the static settings from the metadata file
Open_settings_from_metadata(w) ==
    /\ th[w].pc \in {"dropped", "exited"}
    /\ \E m \in {Metadata_read(metadata_file)} :
          IF ~m.ok
          THEN /\ th' = [th EXCEPT ![w].pc = "open_failed", ![w].result = "IoError"]
               /\ UNCHANGED <<page_manager, latest_version, versions, unpublished,
                              metadata, static_settings, writer, tx, rd, hist>>
          ELSE /\ metadata' = [root |-> m.root, next_page |-> m.next_page,
                               free_pages |-> m.free_pages]
               /\ static_settings' = StaticSettings_read(metadata_file)
               /\ page_manager' = [next_page |-> m.next_page,
                                   free_pages |-> m.free_pages]
               /\ latest_version' = [root |-> m.root, version |-> 0]
               /\ versions' = <<>>
               /\ unpublished' = FALSE
               /\ writer' = 0
               /\ tx' = NoTx
               /\ rd' = [r \in DOMAIN rd |-> NoRead]
               /\ hist' = <<checkpointed.pairs>>
               /\ th' = [th EXCEPT ![w] = Idle]
    /\ UNCHANGED <<pages, metadata_file, checkpointed, disk, static_settings_file, bt, calls>>

\* BTree::open: metadata and static settings are read from their files, the
\* transaction manager starts from the metadata read; an unreadable metadata
\* file is the error of Metadata::read
Open(w) ==
    /\ th[w].pc \in {"dropped", "exited"}
    /\ \E m \in {Metadata_read(metadata_file)} :
          IF ~m.ok
          THEN /\ th' = [th EXCEPT ![w].pc = "open_failed", ![w].result = "IoError"]
               /\ UNCHANGED <<page_manager, latest_version, versions, unpublished,
                              metadata, static_settings, writer, tx, rd, hist>>
          ELSE /\ metadata' = [root |-> m.root, next_page |-> m.next_page,
                               free_pages |-> m.free_pages]
               /\ static_settings' = StaticSettings_read(static_settings_file)
               /\ page_manager' = [next_page |-> m.next_page,
                                   free_pages |-> m.free_pages]
               /\ latest_version' = [root |-> m.root, version |-> 0]
               /\ versions' = <<>>
               /\ unpublished' = FALSE
               /\ writer' = 0
               /\ tx' = NoTx
               /\ rd' = [r \in DOMAIN rd |-> NoRead]
               /\ hist' = <<checkpointed.pairs>>
               /\ th' = [th EXCEPT ![w] = Idle]
    /\ UNCHANGED <<pages, metadata_file, checkpointed, disk, static_settings_file, bt, calls>>

(***************************************************************************)
(* Specifications.                                                         *)
(***************************************************************************)
\* a new that leaves in the root page a leaf with a pair, not the empty leaf
new_without_new_leaf(leaf_cap, internal_cap, writers, readers) ==
    /\ pages = [p \in {1} |-> [new_leaf EXCEPT !.keys = <<0>>, !.values = <<0>>]]
    /\ page_manager = [next_page |-> 2, free_pages |-> <<>>]
    /\ latest_version = [root |-> 1, version |-> 0]
    /\ versions = <<>>
    /\ unpublished = FALSE
    /\ metadata = [root |-> 1, next_page |-> 2, free_pages |-> <<>>]
    /\ metadata_file = <<>>
    /\ checkpointed = [root |-> 1, pairs |-> {}]
    /\ disk = [pages |-> <<>>, metadata |-> <<>>]
    /\ bt = NoDescent
    /\ static_settings = [leaf_capacity |-> leaf_cap, internal_capacity |-> internal_cap]
    /\ static_settings_file
          = StaticSettings_write([leaf_capacity |-> leaf_cap,
                                  internal_capacity |-> internal_cap])
    /\ writer = 0
    /\ tx = NoTx
    /\ th = [w \in writers |-> Idle]
    /\ rd = [r \in readers |-> NoRead]
    /\ hist = <<{}>>
    /\ calls = 0

\* BTree::new: an empty leaf as the root, nothing in the metadata file yet
new(leaf_cap, internal_cap, writers, readers) ==
    /\ pages = [p \in {1} |-> new_leaf]
    /\ page_manager = [next_page |-> 2, free_pages |-> <<>>]
    /\ latest_version = [root |-> 1, version |-> 0]
    /\ versions = <<>>
    /\ unpublished = FALSE
    /\ metadata = [root |-> 1, next_page |-> 2, free_pages |-> <<>>]
    /\ metadata_file = <<>>
    /\ checkpointed = [root |-> 1, pairs |-> {}]
    /\ disk = [pages |-> <<>>, metadata |-> <<>>]
    /\ bt = NoDescent
    /\ static_settings = [leaf_capacity |-> leaf_cap, internal_capacity |-> internal_cap]
    /\ static_settings_file
          = StaticSettings_write([leaf_capacity |-> leaf_cap,
                                  internal_capacity |-> internal_cap])
    /\ writer = 0
    /\ tx = NoTx
    /\ th = [w \in writers |-> Idle]
    /\ rd = [r \in readers |-> NoRead]
    /\ hist = <<{}>>
    /\ calls = 0

Writers == {1, 2}
Readers == {1}
Keys == 0..(NKeys - 1)

Init == new(LeafCap, InternalCap, Writers, Readers)

\* Spec: two writer threads and a reader thread on a new tree; a writer
\* inserts its own number as the value
Next ==
    \/ \E w \in Writers, k \in Keys :
          calls < MaxCalls
          /\ (InsertAsync(w, k, w) \/ InsertOne(w, k, w) \/ Delete(w, k))
    \/ \E w \in Writers : TxInsert(w) \/ TxDelete(w) \/ TxDrop(w) \/ TxCommit(w)
                            \/ TxCheckpoint(w)
    \/ \E r \in Readers, k \in Keys : Lookup(r, k)
    \/ \E r \in Readers : LookupReturn(r) \/ RangeNext(r)
    \/ \E r \in Readers, a \in Keys : RangeQuery(r, a, NKeys)

Spec == Init /\ [][Next]_vars

\* SpecIns: one thread inserting into a new tree, up to a tree of depth 3
InsKeys == 0..(NInsKeys - 1)

value_for(key) == key + 10

pair_for(key) == <<key, value_for(key)>>

InitIns == new(LeafCap, InternalCap, {1}, {})

NextIns ==
    \/ \E k \in InsKeys :
          calls < MaxInsCalls
          /\ (InsertAsync(1, k, value_for(k)) \/ InsertOne(1, k, value_for(k)))
    \/ \E a \in InsKeys, b \in InsKeys :
          calls < MaxInsCalls /\ InsertMany(1, <<pair_for(a), pair_for(b)>>)
    \/ TxInsert(1) \/ TxDrop(1) \/ TxCommit(1) \/ TxCheckpoint(1)

SpecIns == InitIns /\ [][NextIns]_vars

\* SpecDel: one thread on a new tree with deeper internal nodes; its first
\* call is insert_many((0..NDelKeys).map(|i| (i, value_for(i)))), then it
\* deletes, inserts and checkpoints
DelKeys == 0..(NDelKeys - 1)

InitDel == new(LeafCap, DeepInternalCap, {1}, {})

NextDel ==
    \/ calls = 0 /\ InsertMany(1, [i \in 1..NDelKeys |-> pair_for(i - 1)])
    \/ \E k \in DelKeys :
          calls > 0 /\ calls < MaxDelCalls
          /\ (Delete(1, k) \/ InsertAsync(1, k, value_for(k)))
    \/ calls > 0 /\ calls < MaxDelCalls /\ Checkpoint(1)
    \/ TxDelete(1) \/ TxInsert(1) \/ TxDrop(1) \/ TxCommit(1) \/ TxCheckpoint(1)

SpecDel == InitDel /\ [][NextDel]_vars

\* SpecSmall: one thread on a new tree; its first call is
\* insert_many((0..NSmallKeys).map(|i| (i, value_for(i)))), a tree of two
\* levels, then it deletes and inserts, down to the tree without keys
SmallKeys == 0..(NSmallKeys - 1)

InitSmall == new(LeafCap, InternalCap, {1}, {})

NextSmall ==
    \/ calls = 0 /\ InsertMany(1, [i \in 1..NSmallKeys |-> pair_for(i - 1)])
    \/ \E k \in SmallKeys :
          calls > 0 /\ calls < MaxSmallCalls
          /\ (Delete(1, k) \/ InsertAsync(1, k, value_for(k)))
    \/ TxDelete(1) \/ TxInsert(1) \/ TxDrop(1) \/ TxCommit(1) \/ TxCheckpoint(1)

SpecSmall == InitSmall /\ [][NextSmall]_vars

\* SpecLife: one thread on a new tree that inserts, deletes and checkpoints,
\* drops the tree or exits at any point, and reopens the files
LifeKeys == 0..(NLifeKeys - 1)

InitLife == new(LeafCap, InternalCap, {1}, {})

NextLife ==
    \/ \E k \in LifeKeys :
          calls < MaxLifeCalls
          /\ (InsertAsync(1, k, value_for(k)) \/ InsertOne(1, k, value_for(k))
                \/ Delete(1, k))
    \/ calls < MaxLifeCalls /\ Checkpoint(1)
    \/ TxInsert(1) \/ TxDelete(1) \/ TxDrop(1) \/ TxCommit(1) \/ TxCheckpoint(1)
    \/ Drop(1) \/ Exit(1) \/ Open(1)

SpecLife == InitLife /\ [][NextLife]_vars

\* SpecDescent: the thread of SpecDel with insert and delete frame by frame;
\* a descent under way is taken to go on
NextDescent ==
    \/ calls = 0 /\ InsertMany(1, [i \in 1..NDelKeys |-> pair_for(i - 1)])
    \/ \E k \in DelKeys :
          calls > 0 /\ calls < MaxDescentCalls
          /\ (Delete(1, k) \/ InsertAsync(1, k, value_for(k)))
    \/ Descend(1) \/ MutateLeaf(1) \/ Propagate(1) \/ Finish(1) \/ Unwind(1)
    \/ TxDrop(1) \/ TxCommit(1) \/ TxCheckpoint(1)

SpecDescent ==
    /\ InitDel
    /\ [][NextDescent]_vars
    /\ WF_vars(Descend(1) \/ MutateLeaf(1) \/ Propagate(1))

\* SpecCkpt: one thread on a new tree that inserts, deletes and checkpoints,
\* with a checkpoint that can fail at each of its calls
CkptKeys == 0..(NCkptKeys - 1)

InitCkpt == new(LeafCap, InternalCap, {1}, {})

NextCkpt ==
    \/ \E k \in CkptKeys :
          calls < MaxCkptCalls
          /\ (InsertAsync(1, k, value_for(k)) \/ Delete(1, k))
    \/ calls < MaxCkptCalls /\ CheckpointCollect(1)
    \/ \E ok \in BOOLEAN : CheckpointSyncFile(1, ok)
    \/ \E ok \in BOOLEAN : CheckpointWrite(1, ok)
    \/ \E ok \in BOOLEAN : CheckpointSyncAll(1, ok)
    \/ TxInsert(1) \/ TxDelete(1) \/ TxDrop(1) \/ TxCommit(1)

SpecCkpt == InitCkpt /\ [][NextCkpt]_vars

\* a call entered by a thread: a mutating call is at insert_transaction and
\* waits for the writer slot, a checkpoint is at collect_pending
Enter(w, op, items) ==
    /\ th[w].pc = "idle"
    /\ call(w, op, IF op = "checkpoint" THEN "checkpoint" ELSE "lock_writer", items)
    /\ calls' = calls + 1
    /\ UNCHANGED <<pages, page_manager, latest_version, versions, unpublished,
                   metadata, metadata_file, checkpointed, disk, static_settings,
                   static_settings_file, bt, writer, tx, rd, hist>>

\* self.transaction_manager.insert_transaction(&self.pages): the thread has
\* the writer slot, its transaction starts from the root published now
LockWriter(w) ==
    /\ th[w].pc = "lock_writer"
    /\ insert_transaction(w)
    /\ call(w, th[w].op,
            IF th[w].op = "delete" THEN "delete"
            ELSE IF th[w].items = <<>> THEN "commit" ELSE "insert",
            th[w].items)
    /\ UNCHANGED <<pages, page_manager, latest_version, versions, unpublished,
                   metadata, metadata_file, checkpointed, disk, static_settings,
                   static_settings_file, bt, rd, hist, calls>>

\* self.transaction_manager.collect_pending() of a checkpoint in a call: it
\* waits for the transaction manager, which a write transaction holds
Collect(w) ==
    LET c == collect_pending
    IN  /\ th[w].pc = "checkpoint"
        /\ writer = 0
        /\ versions' = c.versions
        /\ page_manager' = [page_manager EXCEPT !.free_pages = c.new_metadata.free_pages]
        /\ unpublished' = FALSE
        /\ IF c.some
           THEN th' = [th EXCEPT ![w].pc = "sync_file", ![w].items = <<c.new_metadata>>]
           ELSE returned(w, "Ok")
        /\ UNCHANGED <<pages, latest_version, metadata, metadata_file, checkpointed, disk,
                       static_settings, static_settings_file, bt, writer, tx, rd, hist,
                       calls>>

\* the guard of self.metadata: held from lock() to the return of checkpoint
holds_metadata(w) == th[w].pc = "sync_all"

\* a write that does not wait for the metadata mutex
LockedWrite_without_lock(w, ok) == CheckpointWrite(w, ok)

\* self.metadata.lock().unwrap() and the seek and write under the guard; an
\* error returns and drops the guard
LockedWrite(w, ok) ==
    /\ \A v \in DOMAIN th : ~holds_metadata(v)
    /\ CheckpointWrite(w, ok)

\* SpecLock: two writer threads and a reader thread; the first call is
\* insert_many((0..NDelKeys).map(|i| (i, value_for(i)))) by thread 1, a
\* tree of depth 3; once it is committed the threads insert, delete and
\* checkpoint, each call waiting for the writer slot and the metadata mutex,
\* and the reader looks up and ranges.  A thread that can take a step takes it
LockThreads == {1, 2}

LockKeys == {2}

InitLock == new(LeafCap, DeepInternalCap, LockThreads, {1})

populated == Len(hist) > 1

ThreadStep(w) ==
    \/ LockWriter(w)
    \/ TxInsert(w) \/ TxDelete(w) \/ TxDrop(w) \/ TxCommit(w)
    \/ Collect(w)
    \/ \E ok \in BOOLEAN : CheckpointSyncFile(w, ok)
    \/ \E ok \in BOOLEAN : LockedWrite(w, ok)
    \/ \E ok \in BOOLEAN : CheckpointSyncAll(w, ok)

ReaderStep(r) == LookupReturn(r) \/ RangeNext(r)

NextLock ==
    \/ calls = 0 /\ Enter(1, "insert_many", [i \in 1..NDelKeys |-> pair_for(i - 1)])
    \/ \E w \in LockThreads, k \in LockKeys :
          populated /\ calls < MaxLockCalls
          /\ (Enter(w, "delete", <<<<k, None>>>>)
                \/ Enter(w, "insert_one", <<pair_for(k)>>)
                \/ Enter(w, "insert_async", <<pair_for(k)>>))
    \/ \E w \in LockThreads :
          populated /\ calls < MaxLockCalls /\ Enter(w, "checkpoint", <<>>)
    \/ \E w \in LockThreads : ThreadStep(w)
    \/ populated /\ (Lookup(1, 2) \/ RangeQuery(1, NDelKeys - 1, NDelKeys + 1))
    \/ ReaderStep(1)

SpecLock ==
    /\ InitLock
    /\ [][NextLock]_vars
    /\ \A w \in LockThreads : WF_vars(ThreadStep(w))
    /\ WF_vars(ReaderStep(1))

(***************************************************************************)
(* Properties.                                                             *)
(***************************************************************************)
published_root == latest_version.root

depth_3(ps, root) ==
    /\ ps[root].tag = "Internal"
    /\ ps[Get(ps[root].children, 0)].tag = "Internal"

\* C1: after any sequence of inserts (insert_one, insert_async, insert_many,
\* with any splits), lookup returns for every key the value inserted with it,
\* and None for every key never inserted -- on the published root for the
\* committed inserts, and on the transaction's root for the inserts of the
\* transaction in progress; an insert of a key not yet in the tree succeeds
C1_inserted_keys_are_found ==
    /\ \A k \in 0..NInsKeys :
          lookup(pages, published_root, k) = value_of(committed, k)
    /\ writer # 0 =>
          \A k \in 0..NInsKeys : lookup(pages, tx.root, k) = value_of(tx.model, k)
    /\ \A w \in DOMAIN th :
          th[w].pc = "failed" => value_of(tx.model, Head(th[w].items)[1]) # None

\* C1 witness: every key of SpecIns is committed and found in a tree of depth 3
C1_witness ==
    /\ th[1].pc = "idle"
    /\ Cardinality(committed) = NInsKeys
    /\ depth_3(pages, published_root)
    /\ \A k \in InsKeys : lookup(pages, published_root, k) = value_for(k)
    /\ lookup(pages, published_root, NInsKeys) = None

\* C2: for every content and every start..end, range yields exactly the
\* values of the stored keys k with start <= k < end, in ascending key order,
\* whether or not start is a stored key
C2_range_yields_start_to_end ==
    \A a \in 0..NInsKeys, b \in 0..NInsKeys :
        range(pages, published_root, a, b) = expected_range(committed, a, b)

\* the case the iterator gets right: start is a stored key
range_from_stored_start ==
    \A a \in {e[1] : e \in committed}, b \in 0..NInsKeys :
        range(pages, published_root, a, b) = expected_range(committed, a, b)

\* C2 witness: start is not stored, a stored key follows it, the tree has
\* several leaves
C2_witness ==
    /\ pages[published_root].tag = "Internal"
    /\ \E a \in InsKeys, k \in InsKeys :
          /\ value_of(committed, a) = None
          /\ a < k /\ value_of(committed, k) # None

live(r) == rd[r].pc # "idle"

\* what a live read transaction returns in all: what it returned so far and
\* what the iterator has left
result_of(ps, r) ==
    IF rd[r].pc = "lookup" THEN <<lookup(ps, rd[r].root, rd[r].key)>>
    ELSE rd[r].out \o collect(ps, rd[r].it, rd[r].end, <<>>)

\* what the pairs m give for the query of read transaction r
expected_of(m, r) ==
    IF rd[r].pc = "lookup" THEN <<value_of(m, rd[r].key)>>
    ELSE expected_range(m, rd[r].start, rd[r].end)

\* the pages of the tree under id
RECURSIVE reachable(_, _)
reachable(ps, id) ==
    {id} \cup UNION {reachable(ps, ps[id].children[i]) : i \in DOMAIN ps[id].children}

\* C3: every lookup and range of a reader returns exactly what some committed
\* version holds for the query, and a later read transaction never sees an
\* older version (the published version never goes back)
C3_readers_see_committed_versions ==
    /\ \A r \in DOMAIN rd :
          live(r) => \E j \in 1..Len(hist) :
                        result_of(pages, r) = expected_of(hist[j], r)
    /\ latest_version.version = Len(hist) - 1

\* the lookups of C3 alone
lookups_see_captured_version ==
    \A r \in DOMAIN rd :
        rd[r].pc = "lookup" => result_of(pages, r) = expected_of(hist[rd[r].version + 1], r)

\* C4, states: a read transaction's root holds the pairs of the version
\* committed when it was captured, whatever was committed or written since,
\* and the published root holds the committed pairs, not those of the write
\* transaction in progress
C4_state ==
    /\ content(pages, published_root) = committed
    /\ \A r \in DOMAIN rd :
          live(r) => /\ rd[r].version <= latest_version.version
                     /\ content(pages, rd[r].root) = hist[rd[r].version + 1]
                     /\ rd[r].pc = "range" =>
                           result_of(pages, r)
                             = range(pages, rd[r].root, rd[r].start, rd[r].end)

\* C4, steps: the published root changes only in the commit of the write
\* transaction, to that transaction's root; a read transaction keeps its
\* root and what it returns
C4_step ==
    /\ latest_version' # latest_version =>
          /\ writer # 0 /\ th[writer].pc = "commit"
          /\ latest_version' = [root |-> tx.root,
                                version |-> latest_version.version + 1]
    /\ \A r \in DOMAIN rd :
          (live(r) /\ rd'[r].pc = rd[r].pc) =>
             /\ rd'[r].root = rd[r].root
             /\ rd[r].pc = "lookup" => result_of(pages', r) = result_of(pages, r)

\* C4: a write transaction's root is visible to read transactions only from
\* its commit on; a read transaction opened before keeps returning the
\* results of the root it captured, whatever commits happen meanwhile
C4_root_visible_at_commit == []C4_state /\ [][C4_step]_vars

\* C4 witness: a range iterator that has yielded a value, two commits after
\* its capture, the published tree holding other pairs than its root
C4_witness ==
    \E r \in DOMAIN rd :
        /\ rd[r].pc = "range" /\ rd[r].out # <<>>
        /\ rd[r].version + 2 <= latest_version.version
        /\ content(pages, rd[r].root) # committed

\* C5, states: no page under the root of a live read transaction is in the
\* free list or allocated to the write transaction, and a lookup returns the
\* value inserted with the key in the captured version, or None
C5_state ==
    \A r \in DOMAIN rd :
        live(r) =>
          /\ reachable(pages, rd[r].root)
                \cap (Elems(page_manager.free_pages) \cup tx.fresh) = {}
          /\ rd[r].pc = "lookup" =>
                lookup(pages, rd[r].root, rd[r].key)
                  = value_of(hist[rd[r].version + 1], rd[r].key)

\* C5, steps: no step writes a page under the root of a live read transaction
C5_step ==
    \A r \in DOMAIN rd :
        (live(r) /\ rd'[r].pc = rd[r].pc) =>
           \A p \in reachable(pages, rd[r].root) : pages'[p] = pages[p]

\* C5: while a read transaction is alive no page reachable from its root is
\* handed out by the allocator or overwritten, so a concurrent lookup returns
\* the inserted value or None
C5_no_reader_reads_reused_page == []C5_state /\ [][C5_step]_vars

\* C5 witness: a checkpoint has run while a live read transaction still reads
\* pages that a later commit superseded
C5_witness ==
    \E r \in DOMAIN rd : \E i \in DOMAIN versions :
        /\ live(r) /\ ~unpublished
        /\ reachable(pages, rd[r].root) \cap versions[i].pages # {}

\* C6, states: the pages of a pending version are not in the free list
C6_state ==
    \A i \in DOMAIN versions :
        versions[i].pages \cap Elems(page_manager.free_pages) = {}

\* C6, steps: a pending version leaves the pending list, its pages entering
\* the free list, only when every live read transaction has a greater version
C6_step ==
    \A i \in DOMAIN versions :
        LET b == versions[i]
        IN  (\E v \in live_versions : v <= b.version) =>
               /\ \E j \in DOMAIN versions' : versions'[j] = b
               /\ b.pages \cap Elems(page_manager'.free_pages) = {}

\* C6: a page scheduled for reclamation at version W enters the free list
\* only when every live read transaction has a version greater than W; a
\* checkpoint with a reader of version <= W alive leaves it pending
C6_reclaimed_after_readers == []C6_state /\ [][C6_step]_vars

\* C6 witness: a checkpoint has released the pages of one version and withheld
\* those of a later one for a live read transaction
C6_witness ==
    \E i \in DOMAIN versions :
        /\ \E v \in live_versions : v <= versions[i].version
        /\ versions[i].pages # {}
        /\ ~unpublished
        /\ page_manager.free_pages # <<>>

in_tx(w) == th[w].pc \in {"insert", "delete", "commit", "failed"}

call_key(w) == Head(th[w].items)[1]

\* C7, states: a thread in a write transaction holds the writer slot, so at
\* most one is in one; an insert fails only on a key the tree has; the
\* published tree finds every committed pair
C7_state ==
    /\ \A w \in DOMAIN th : in_tx(w) <=> writer = w
    /\ \A w \in DOMAIN th :
          th[w].pc = "failed" => /\ th[w].result = "DuplicatedKey"
                                 /\ value_of(tx.model, call_key(w)) # None
    /\ \A k \in Keys : lookup(pages, published_root, k) = value_of(committed, k)

\* C7, steps: a call enters its write transaction from a free writer slot
C7_step ==
    \A w \in DOMAIN th :
        (~in_tx(w) /\ in_tx(w)') => (writer = 0 /\ writer' = w)

C8_state ==
    \A w \in DOMAIN th :
        th[w].pc = "failed" =>
          /\ latest_version = th[w].pre
          /\ entries(pages, published_root) = th[w].pre_entries

\* C8, steps: the insert of a key the tree (or the transaction) already has
\* gets DuplicatedKey; when the call returns, the published root, the pairs
\* lookup and range see, and the value of the key are those of before the call
C8_step ==
    \A w \in DOMAIN th :
        /\ (th[w].pc = "insert" /\ th'[w] # th[w]
               /\ value_of(tx.model, call_key(w)) # None)
             => (th'[w].pc = "failed" /\ th'[w].result = "DuplicatedKey")
        /\ (th[w].pc = "failed" /\ th[w].result = "DuplicatedKey"
               /\ th'[w].pc = "idle")
             => /\ latest_version' = th[w].pre
                /\ entries(pages', latest_version'.root) = th[w].pre_entries
                /\ lookup(pages', latest_version'.root, call_key(w))
                     = value_of(Elems(th[w].pre_entries), call_key(w))
                /\ range(pages', latest_version'.root, 0, NInsKeys)
                     = range(pages, th[w].pre.root, 0, NInsKeys)

\* C8: inserting a key that is already in the tree returns DuplicatedKey and
\* leaves the tree unchanged: the published root, the pairs seen by lookup
\* and range and the value stored for the key are the same as before the call
C8_duplicated_key_no_change == []C8_state /\ [][C8_step]_vars

\* C8 witness: a call got DuplicatedKey after its transaction had shadowed
\* the path through an internal root
C8_witness ==
    /\ th[1].pc = "failed" /\ th[1].result = "DuplicatedKey"
    /\ pages[published_root].tag = "Internal"
    /\ tx.root # published_root

\* I1..I4 under node id: keys ascending, within the bounds the separators of
\* the ancestors give, non-root nodes at their lower bound or above, an
\* internal node with one child more than keys
RECURSIVE valid_node(_, _, _, _, _, _)
valid_node(ps, id, lo, hi, is_root, fuel) ==
    /\ fuel > 0
    /\ id \in DOMAIN ps
    /\ LET n  == ps[id]
           ks == n.keys
           cs == n.children
       IN  /\ \A i \in 1..(Len(ks) - 1) : ks[i] < ks[i + 1]
           /\ \A i \in 1..Len(ks) : (lo = None \/ lo <= ks[i]) /\ (hi = None \/ ks[i] < hi)
           /\ IF n.tag = "Leaf"
              THEN /\ Len(n.values) = Len(ks)
                   /\ is_root \/ Len(ks) >= leaf_lower_bound
              ELSE /\ Len(cs) = Len(ks) + 1
                   /\ Len(ks) >= (IF is_root THEN 1 ELSE internal_lower_bound)
                   /\ \A i \in 1..Len(cs) :
                         valid_node(ps, cs[i],
                                    IF i = 1 THEN lo ELSE ks[i - 1],
                                    IF i = Len(cs) THEN hi ELSE ks[i],
                                    FALSE, fuel - 1)

\* the depths at which the leaves under id lie
RECURSIVE leaf_depths(_, _, _, _)
leaf_depths(ps, id, d, fuel) ==
    IF fuel = 0 \/ id \notin DOMAIN ps THEN {None}
    ELSE IF ps[id].tag = "Leaf" THEN {d}
    ELSE UNION {leaf_depths(ps, ps[id].children[i], d + 1, fuel - 1) :
                  i \in DOMAIN ps[id].children}

valid_tree(ps, root) ==
    /\ valid_node(ps, root, None, None, TRUE, Cardinality(DOMAIN ps))
    /\ Cardinality(leaf_depths(ps, root, 0, Cardinality(DOMAIN ps))) = 1

\* C9: delete of a key that is not in the tree returns Ok and leaves the tree
\* state as it was: the published root and every stored pair are the same
\* when the call returns as before the call
C9_step ==
    \A w \in DOMAIN th :
        (th[w].op = "delete" /\ in_tx(w) /\ th'[w].pc = "idle"
           /\ value_of(Elems(th[w].pre_entries), call_key(w)) = None)
         => /\ th[w].result = "Ok"
            /\ latest_version'.root = th[w].pre.root
            /\ entries(pages', latest_version'.root) = th[w].pre_entries

C9_delete_absent_key_no_change == [][C9_step]_vars

\* the part of C9 the code keeps: the stored pairs are the same
C9_pairs_step ==
    \A w \in DOMAIN th :
        (th[w].op = "delete" /\ in_tx(w) /\ th'[w].pc = "idle"
           /\ value_of(Elems(th[w].pre_entries), call_key(w)) = None)
         => entries(pages', latest_version'.root) = th[w].pre_entries

delete_absent_key_keeps_pairs == [][C9_pairs_step]_vars

\* C10: a delete of a key that was inserted completes, and when it returns,
\* lookup misses the key, every other pair is kept and the tree is
\* structurally valid (I1..I4), whatever the delete triggers: borrow, merge,
\* root collapse
C10_step ==
    \A w \in DOMAIN th :
        (th[w].op = "delete"
           /\ value_of(Elems(th[w].pre_entries), call_key(w)) # None)
         => /\ th[w].pc = "delete" => th'[w].pc \in {"delete", "commit"}
            /\ (th[w].pc = "commit" /\ th'[w].pc = "idle") =>
                  /\ th[w].result = "Ok"
                  /\ lookup(pages', latest_version'.root, call_key(w)) = None
                  /\ valid_tree(pages', latest_version'.root)
                  /\ content(pages', latest_version'.root)
                       = {e \in Elems(th[w].pre_entries) : e[1] # call_key(w)}

C10_insert_then_delete == [][C10_step]_vars

RECURSIVE half_full(_, _, _, _)
half_full(ps, id, is_root, fuel) ==
    /\ fuel > 0
    /\ id \in DOMAIN ps
    /\ IF ps[id].tag = "Leaf"
       THEN is_root \/ 2 * Len(ps[id].keys) >= leaf_capacity
       ELSE /\ is_root \/ 2 * Len(ps[id].children) >= internal_capacity + 1
            /\ \A i \in DOMAIN ps[id].children :
                  half_full(ps, ps[id].children[i], FALSE, fuel - 1)

RECURSIVE straddles(_, _, _, _, _)
straddles(ps, id, lo, hi, fuel) ==
    /\ fuel > 0
    /\ id \in DOMAIN ps
    /\ LET ks == ps[id].keys
           cs == ps[id].children
       IN  /\ \A i \in 1..(Len(ks) - 1) : ks[i] < ks[i + 1]
           /\ \A i \in 1..Len(ks) :
                 (lo = None \/ lo <= ks[i]) /\ (hi = None \/ ks[i] < hi)
           /\ ps[id].tag = "Internal" =>
                 /\ Len(cs) = Len(ks) + 1
                 /\ \A i \in 1..Len(cs) :
                       straddles(ps, cs[i],
                                 IF i = 1 THEN lo ELSE ks[i - 1],
                                 IF i = Len(cs) THEN hi ELSE ks[i],
                                 fuel - 1)

durable == Metadata_read(metadata_file)

\* C14, states: the metadata file, once written, names the root published at
\* the last successful checkpoint (the root of new when there was none), the
\* pages under that root still hold the pairs of that moment, and no page
\* under it is in the recorded free list
C14_state ==
    metadata_file # <<>> =>
       /\ durable.ok
       /\ durable.root = checkpointed.root
       /\ content(pages, durable.root) = checkpointed.pairs
       /\ reachable(pages, durable.root) \cap Elems(durable.free_pages) = {}

\* C14, steps: what the metadata file records changes only in a checkpoint
\* that found a commit to publish; the destructor rewrites what the file
\* holds, or writes the state of new into the file never written
C14_step ==
    /\ durable' # durable =>
          \/ /\ unpublished /\ ~unpublished'
             /\ th[1].pc \in {"idle", "checkpoint"}
             /\ durable'.root = latest_version.root
          \/ /\ metadata_file = <<>>
             /\ th'[1].pc = "dropped"
             /\ durable'.root = checkpointed.root
    /\ (th[1].pc = "commit" /\ th'[1].pc # "commit") => durable' = durable

returns_ok(w) ==
    /\ th[w].pc \in {"commit", "checkpoint"}
    /\ th'[w].pc = "idle"
    /\ th[w].result \in {"none", "Ok"}

\* the metadata file records the published tree and the page manager's state
recorded(file, version, manager) ==
    /\ Metadata_read(file).ok
    /\ Metadata_read(file).root = version.root
    /\ Metadata_read(file).next_page = manager.next_page
    /\ Metadata_read(file).free_pages = manager.free_pages

\* C15: when insert_many or the single-key delete returns with success, the
\* change it committed is recorded in the metadata file (root, free list,
\* watermark), without a separate call of checkpoint
C15_step ==
    \A w \in DOMAIN th :
        (th[w].op \in {"insert_many", "delete"} /\ returns_ok(w))
          => recorded(metadata_file', latest_version', page_manager')

C15_insert_many_and_delete_checkpoint == [][C15_step]_vars

\* the part of C15 the code keeps: insert_many
C15_insert_many_step ==
    \A w \in DOMAIN th :
        (th[w].op = "insert_many" /\ returns_ok(w))
          => recorded(metadata_file', latest_version', page_manager')

insert_many_checkpoints == [][C15_insert_many_step]_vars

\* C15 witness: a delete has returned, its commit not in the metadata file
C15_witness ==
    /\ th[1].pc = "idle"
    /\ Cardinality(committed) = NDelKeys - 1
    /\ unpublished
    /\ durable.root # latest_version.root

\* every pair of m is found by a lookup on root, and by every range on root
\* that covers its key
visible(ps, root, m) ==
    \A e \in m :
        /\ lookup(ps, root, e[1]) = e[2]
        /\ \A a \in 0..e[1], b \in (e[1] + 1)..NInsKeys :
              e[2] \in Elems(range(ps, root, a, b))

\* the same, for the ranges that start at a stored key
visible_from_stored_start(ps, root, m) ==
    \A e \in m :
        /\ lookup(ps, root, e[1]) = e[2]
        /\ \A a \in {x[1] : x \in m} \cap 0..e[1], b \in (e[1] + 1)..NInsKeys :
              e[2] \in Elems(range(ps, root, a, b))

\* C16, steps without the ranges: insert_async returns without a write to the
\* metadata file; the file is written only in the checkpoint of insert_one or
\* insert_many; insert_one returns from its checkpoint, its commit recorded
C16_checkpoint_step ==
    /\ \A w \in DOMAIN th :
          (th[w].op = "insert_async" /\ returns_ok(w)) =>
             /\ th[w].pc = "commit"
             /\ metadata_file' = metadata_file
             /\ ~recorded(metadata_file', latest_version', page_manager')
    /\ metadata_file' # metadata_file =>
          \E w \in DOMAIN th : /\ th[w].pc = "checkpoint"
                               /\ th[w].op \in {"insert_one", "insert_many"}
    /\ \A w \in DOMAIN th :
          (th[w].op = "insert_one" /\ returns_ok(w)) =>
             /\ th[w].pc = "checkpoint"
             /\ latest_version' = latest_version /\ pages' = pages
             /\ recorded(metadata_file', latest_version', page_manager')

\* C16: insert_async performs no implicit checkpoint: when it returns Ok the
\* new pair is visible to every new lookup and range, and the metadata file
\* is unchanged until a checkpoint (of insert_one or insert_many) runs;
\* insert_one is insert_async followed by checkpoint
C16_step ==
    /\ C16_checkpoint_step
    /\ \A w \in DOMAIN th :
          (th[w].op \in {"insert_async", "insert_one"} /\ returns_ok(w)) =>
             visible(pages', latest_version'.root, committed')

C16_insert_async_no_checkpoint == [][C16_step]_vars

\* the part of C16 the code keeps: the checkpoints, the lookups and the
\* ranges that start at a stored key
C16_kept_step ==
    /\ C16_checkpoint_step
    /\ \A w \in DOMAIN th :
          (th[w].op \in {"insert_async", "insert_one"} /\ returns_ok(w)) =>
             visible_from_stored_start(pages', latest_version'.root, committed')

insert_async_no_checkpoint_stored_start == [][C16_kept_step]_vars

\* C16 witness: insert_async has returned after a checkpointing insert, the
\* metadata file recording the tree without its pair
C16_witness ==
    /\ th[1].pc = "idle"
    /\ unpublished
    /\ durable.ok
    /\ content(pages, durable.root) # {}
    /\ content(pages, durable.root) # committed
    /\ visible_from_stored_start(pages, published_root, committed)

\* C17: a tree that was populated, checkpointed and dropped reopens with the
\* root PageId it had, and lookup returns for every key what it returned
\* before the drop
C17_step ==
    (th[1].pc = "dropped" /\ ~unpublished /\ th'[1].pc # "dropped") =>
        /\ th'[1].pc = "idle"
        /\ latest_version'.root = th[1].pre.root
        /\ \A k \in 0..NLifeKeys :
              lookup(pages', latest_version'.root, k)
                = value_of(Elems(th[1].pre_entries), k)

C17_reopen_same_root_same_values == [][C17_step]_vars

\* C17 witness: a reopened tree (version 0 again) with an internal root that
\* holds every key of SpecLife
C17_witness ==
    /\ th[1].pc = "idle"
    /\ latest_version.version = 0
    /\ pages[published_root].tag = "Internal"
    /\ durable.root = published_root
    /\ \A k \in LifeKeys : lookup(pages, published_root, k) = value_for(k)

\* the static settings new was called with in SpecLife
settings_of_new == [leaf_capacity |-> LeafCap, internal_capacity |-> InternalCap]

\* C18, states: the tree's static settings and those in the static settings
\* file are the ones passed to new, also in a tree returned by open
C18_state ==
    /\ static_settings = settings_of_new
    /\ StaticSettings_read(static_settings_file) = settings_of_new

\* C18, steps: no insert, delete, checkpoint, drop or open changes them
C18_step ==
    /\ static_settings' = static_settings
    /\ static_settings_file' = static_settings_file

\* C18: static settings are written once by new and never changed: no
\* insert, delete, checkpoint or drop alters them, and open returns a tree
\* with the values passed to new
C18_static_settings_never_change == []C18_state /\ [][C18_step]_vars

\* C18 witness: a tree that was reopened after checkpointed inserts and was
\* dropped again
C18_witness ==
    /\ th[1].pc = "dropped"
    /\ latest_version.version = 0
    /\ published_root # 1
    /\ committed # {}
    /\ static_settings = settings_of_new

\* the number of levels of the tree under id, by its leftmost path
RECURSIVE height(_, _)
height(ps, id) ==
    IF ps[id].tag = "Leaf" THEN 1 ELSE 1 + height(ps, Get(ps[id].children, 0))

\* the root node is full and the insert of key reaches it as a split
root_is_full_leaf(ps, root) ==
    ps[root].tag = "Leaf" /\ Len(ps[root].keys) = leaf_capacity

\* C19, one insert of the write transaction of thread w that succeeds: the
\* tree grows by at most one level; where it grows, the new root is an
\* internal node with one key and two children, on the left the page of the
\* old root (the transaction's copy of it), on the right a new page, the
\* key being the promoted split key: the two pages share out the keys of
\* the old root, the key parts them, and it is the first key of the right
\* page when the root was a leaf; a full root leaf gives a tree of depth 2
C19_step ==
    \A w \in DOMAIN th :
        (writer = w /\ th[w].pc = "insert" /\ th'[w].pc \in {"insert", "commit"}) =>
          LET old   == pages[tx.root]
              h     == height(pages, tx.root)
              h2    == height(pages', tx'.root)
              root  == pages'[tx'.root]
              lchild == pages'[Get(root.children, 0)]
              rchild == pages'[Get(root.children, 1)]
          IN  /\ h2 \in {h, h + 1}
              /\ (root_is_full_leaf(pages, tx.root)
                    /\ value_of(tx.model, call_key(w)) = None) => h2 = 2
              /\ h2 = h + 1 =>
                    /\ root.tag = "Internal"
                    /\ Len(root.keys) = 1 /\ Len(root.children) = 2
                    /\ Get(root.children, 0) = mut_page(T, tx.root).id
                    /\ Get(root.children, 1) \in tx'.fresh \ tx.fresh
                    /\ Get(root.children, 1) # Get(root.children, 0)
                    /\ lchild.tag = old.tag /\ rchild.tag = old.tag
                    /\ \A i \in DOMAIN lchild.keys : lchild.keys[i] < root.keys[1]
                    /\ \A i \in DOMAIN rchild.keys : rchild.keys[i] >= root.keys[1]
                    /\ IF old.tag = "Leaf"
                       THEN /\ lchild.keys \o rchild.keys
                                 = sorted_seq(Elems(old.keys) \cup {call_key(w)})
                            /\ root.keys[1] = rchild.keys[1]
                       ELSE /\ Len(lchild.keys) + 1 + Len(rchild.keys) = Len(old.keys) + 1
                            /\ Elems(old.keys)
                                 \subseteq Elems(lchild.keys \o root.keys \o rchild.keys)
                            /\ Len(lchild.children) + Len(rchild.children)
                                 = Len(old.children) + 1
                    /\ content(pages', tx'.root)
                         = content(pages, tx.root) \cup {Head(th[w].items)}

\* C19: when the root itself splits, leaf or internal, the new root is an
\* internal node with exactly one key, the promoted split key, and exactly
\* two children, the old root page on the left and the new sibling on the
\* right, and the tree depth grows by exactly one; the split of a root leaf
\* gives a tree of depth 2
C19_root_split == [][C19_step]_vars

\* C19 witness: the write transaction has split an internal root, its tree has
\* three levels and the published one two
C19_witness ==
    /\ writer = 1 /\ th[1].pc = "commit"
    /\ height(pages, tx.root) = 3
    /\ height(pages, published_root) = 2
    /\ Len(pages[tx.root].keys) = 1

\* C20, states: no committed tree has an internal root with zero keys
C20_state ==
    ~(pages[published_root].tag = "Internal" /\ Len(pages[published_root].keys) = 0)

\* C20, steps: where the delete of thread w leaves the transaction's copy of
\* the internal root with zero keys, the delete succeeds with the root's one
\* child as the root of the transaction, the tree one level lower and only
\* the deleted key gone
C20_step ==
    \A w \in DOMAIN th :
        (writer = w /\ th[w].pc = "delete" /\ th'[w].pc # "delete") =>
          LET r == mut_page(T, tx.root).id
          IN  (pages'[r].tag = "Internal" /\ Len(pages'[r].keys) = 0) =>
                 /\ th'[w].pc = "commit"
                 /\ Len(pages'[r].children) = 1
                 /\ tx'.root = Get(pages'[r].children, 0)
                 /\ height(pages', tx'.root) = height(pages, tx.root) - 1
                 /\ content(pages', tx'.root)
                      = {e \in content(pages, tx.root) : e[1] # call_key(w)}

\* C20: when a delete leaves the internal root with zero keys, the root's
\* sole remaining child becomes the root of the transaction and the tree
\* loses one level, so no committed tree has an internal root with zero keys,
\* whatever the depth of the tree and the leaf in which the delete started
C20_root_collapse == []C20_state /\ [][C20_step]_vars

\* C20 witness: a delete has taken the tree of three levels down to two
C20_witness ==
    /\ writer = 1 /\ th[1].pc = "commit" /\ th[1].op = "delete"
    /\ height(pages, published_root) = 3
    /\ height(pages, tx.root) = 2
    /\ pages[tx.root].keys # <<>>

\* C21: a range whose start is greater than or equal to its end yields the
\* empty sequence, for every tree content (the published tree and the tree
\* of the write transaction in progress)
C21_range_start_not_below_end_is_empty ==
    \A a \in 0..NInsKeys, b \in 0..NInsKeys :
        a >= b =>
          /\ range(pages, published_root, a, b) = <<>>
          /\ writer # 0 => range(pages, tx.root, a, b) = <<>>

\* C21 witness: a tree of three levels with every key of SpecIns, where the
\* range from the first key to the last yields values and the reverse none
C21_witness ==
    /\ th[1].pc = "idle"
    /\ height(pages, published_root) = 3
    /\ Cardinality(committed) = NInsKeys
    /\ range(pages, published_root, 0, NInsKeys - 1) # <<>>
    /\ range(pages, published_root, NInsKeys - 1, 0) = <<>>
    /\ range(pages, published_root, 2, 2) = <<>>

\* C22: on a tree that holds no keys, the tree as created by new or a tree
\* emptied by deletes, every range yields the empty sequence and every
\* lookup returns None
C22_empty_tree_yields_nothing ==
    (committed = {} \/ entries(pages, published_root) = <<>>) =>
        /\ committed = {} /\ entries(pages, published_root) = <<>>
        /\ \A k \in 0..NSmallKeys : lookup(pages, published_root, k) = None
        /\ \A a \in 0..NSmallKeys, b \in 0..NSmallKeys :
              range(pages, published_root, a, b) = <<>>

\* C22 witness: deletes have emptied the tree of two levels insert_many built
C22_witness ==
    /\ th[1].pc = "idle"
    /\ Len(hist) = NSmallKeys + 2
    /\ Cardinality(hist[2]) = NSmallKeys
    /\ committed = {}
    /\ range(pages, published_root, 0, NSmallKeys) = <<>>

flushed(p) == p \in DOMAIN disk.pages /\ disk.pages[p] = pages[p]

\* C23, states: every page of the tree under the root the metadata file
\* names is in the page file as the last sync_file flushed it
C23_state ==
    durable.ok => \A p \in reachable(pages, durable.root) : flushed(p)

\* C23, steps: the metadata file is rewritten only after sync_file has
\* flushed the pages of the root it will name, and checkpoint returns Ok
\* only after sync_all has flushed what it wrote
C23_step ==
    /\ metadata_file' # metadata_file =>
          /\ th[1].pc = "write"
          /\ \A p \in reachable(pages, new_metadata_of(1).root) : flushed(p)
    /\ disk'.metadata # disk.metadata =>
          th[1].pc = "sync_all" /\ disk'.metadata = metadata_file
    /\ (th[1].pc = "sync_all" /\ th'[1].result = "Ok") =>
          /\ disk'.metadata = metadata_file'
          /\ Metadata_read(disk'.metadata).root = latest_version.root

\* C23: within one checkpoint the page store is flushed before the metadata
\* file is rewritten and the metadata file is synced after the rewrite, so
\* the durable metadata never names a root whose pages were not yet flushed
C23_checkpoint_ordering == []C23_state /\ [][C23_step]_vars

\* the order of the calls within a checkpoint alone
checkpoint_steps_in_order == [][C23_step]_vars

\* C23 witness: a checkpoint has returned Ok after sync_file, the rewrite and
\* sync_all, and the file names the published root with its pages flushed
C23_witness ==
    /\ th[1].pc = "idle" /\ th[1].result = "Ok"
    /\ metadata_file # <<>>
    /\ disk.metadata = metadata_file
    /\ durable.root = latest_version.root
    /\ durable.root # 1
    /\ \A p \in reachable(pages, durable.root) : flushed(p)

failed(w) == th[w].pc = "idle" /\ th[w].result = "IoError"

\* a checkpoint that has failed, or is under way, leaves the in-memory copy
\* of the last checkpointed metadata as it was
C24_guard_state ==
    (failed(1) \/ th[1].op = "checkpoint") => metadata.root = checkpointed.root

C24_guard_step ==
    (th[1].op = "checkpoint" /\ th'[1].result = "IoError") => metadata' = metadata

\* a checkpoint that has failed leaves in the metadata file what the last
\* successful checkpoint synced
C24_file_state == failed(1) => metadata_file = disk.metadata

\* a checkpoint that returns Ok after a commit leaves the published root,
\* with every commit made so far, in the metadata file
C24_later_step ==
    (th[1].pc \in {"idle", "sync_all"} /\ th'[1].result = "Ok" /\ Len(hist) > 1) =>
       /\ Metadata_read(metadata_file').ok
       /\ Metadata_read(metadata_file').root = latest_version.root
       /\ content(pages, Metadata_read(metadata_file').root) = committed

C24_state == C24_file_state /\ C24_guard_state

C24_step == C24_guard_step /\ C24_later_step

failed_checkpoint_keeps_guard == []C24_guard_state /\ [][C24_guard_step]_vars

failed_checkpoint_later == [][C24_later_step]_vars

\* C24: a checkpoint that fails (page sync, seek, write or metadata sync
\* returns an IoError) leaves the previous durable metadata intact and the
\* in-memory copy of the last checkpointed metadata unchanged, and the
\* commits it was trying to persist are persisted by a later successful
\* checkpoint
C24_failed_checkpoint == []C24_state /\ [][C24_step]_vars

\* C24 witness: a checkpoint failed after an earlier one had succeeded, with
\* a commit still to persist, and left the metadata file as it was synced
C24_witness ==
    /\ failed(1)
    /\ metadata_file # <<>>
    /\ metadata_file = disk.metadata
    /\ durable.root # latest_version.root
    /\ metadata.root = durable.root

scheduled == UNION {versions[i].pages : i \in DOMAIN versions}

\* C25, states: the published root holds the committed pairs whatever the
\* write transaction has written, and none of its pages is free or allocated
\* to the write transaction
C25_state ==
    /\ content(pages, published_root) = committed
    /\ reachable(pages, published_root)
          \cap (Elems(page_manager.free_pages) \cup tx.fresh) = {}

\* C25, steps: a step of a write transaction writes only pages allocated to
\* the transaction, never a page of the published tree or one scheduled for
\* reclamation; the nodes of its tree that are not those of the published
\* tree are its own, and every page of the published tree that its tree has
\* left is scheduled for reclamation, in the bucket of its commit
C25_step ==
    LET R == reachable(pages, published_root)
    IN  /\ \A p \in DOMAIN pages' :
              (p \notin DOMAIN pages \/ pages'[p] # pages[p]) =>
                 /\ p \notin R \cup scheduled
                 /\ p \in tx'.fresh \cup tx'.shadowed
                 /\ \/ p \notin DOMAIN pages
                    \/ p \in Elems(page_manager.free_pages) \cup tx.fresh
        /\ (writer = 1 /\ writer' = 1 /\ th'[1].pc = "commit") =>
              /\ reachable(pages', tx'.root) \ R \subseteq tx'.fresh
              /\ R \ reachable(pages', tx'.root) \subseteq tx'.shadowed
              /\ tx'.shadowed \cap reachable(pages', tx'.root) = {}
        /\ (th[1].pc = "commit" /\ latest_version' # latest_version) =>
              /\ Last(versions').pages = tx.shadowed
              /\ Last(versions').version = latest_version'.version
              /\ R \ reachable(pages, latest_version'.root) \subseteq tx.shadowed

C26_step ==
    (th[1].pc = "failed" /\ th'[1].pc # "failed") =>
       /\ Elems(page_manager'.free_pages)
             = Elems(page_manager.free_pages) \cup tx.fresh
       /\ Len(page_manager'.free_pages)
             = Len(page_manager.free_pages) + Cardinality(tx.fresh)
       /\ tx.shadowed \cap Elems(page_manager'.free_pages) = {}
       /\ versions' = versions
       /\ latest_version' = latest_version
       /\ latest_version' = th[1].pre
       /\ hist' = hist
       /\ content(pages', latest_version'.root) = committed
       /\ entries(pages', latest_version'.root) = th[1].pre_entries
       /\ writer' = 0 /\ tx' = NoTx

\* C26: dropping a write transaction before commit, as insert_async and
\* insert_many do when insert returns an error, returns its shadow and
\* freshly allocated pages to the free list immediately, releases no page
\* it scheduled for reclamation, and leaves the published root and version
\* unchanged
C26_drop_discards_transaction == [][C26_step]_vars

\* C26 witness: a tree without a commit whose free list holds pages: those
\* of a dropped insert_many whose second pair failed
C26_witness ==
    /\ th[1].pc = "idle" /\ writer = 0
    /\ latest_version.version = 0
    /\ page_manager.free_pages # <<>>
    /\ content(pages, published_root) = {}

\* the leaf a descent for key ends in
RECURSIVE leaf_for(_, _, _)
leaf_for(ps, id, key) ==
    IF ps[id].tag = "Leaf" THEN id
    ELSE leaf_for(ps, Get(ps[id].children, upper_pivot(ps[id], key)), key)

\* the insert of this step finds its leaf full and the key not in it
splits_leaf ==
    /\ writer = 1 /\ th[1].pc = "insert"
    /\ LET leaf == pages[leaf_for(pages, tx.root, call_key(1))]
       IN  /\ Len(leaf.keys) = leaf_capacity
           /\ call_key(1) \notin Elems(leaf.keys)

\* C27, steps: after the insert into a full leaf some internal node of the
\* transaction's tree holds, side by side, the left node and a newly
\* allocated right sibling with split_key between them; their pairs in
\* order are the old pairs with the inserted pair in its place, split_key is
\* the first key of the right sibling, above every key of the left node
C27_step ==
    splits_leaf =>
       LET old == pages[leaf_for(pages, tx.root, call_key(1))]
           bs  == binary_search(old.keys, call_key(1))
       IN  \E p \in reachable(pages', tx'.root) :
             /\ pages'[p].tag = "Internal"
             /\ \E i \in 1..Len(pages'[p].keys) :
                   LET l == pages'[p].children[i]
                       r == pages'[p].children[i + 1]
                       split_key == pages'[p].keys[i]
                   IN  /\ pages'[l].tag = "Leaf" /\ pages'[r].tag = "Leaf"
                       /\ pages'[l].keys \o pages'[r].keys
                             = InsertAt(old.keys, bs.pos, call_key(1))
                       /\ pages'[l].values \o pages'[r].values
                             = InsertAt(old.values, bs.pos, Head(th[1].items)[2])
                       /\ \A k \in Elems(pages'[l].keys) : k < split_key
                       /\ \A k \in Elems(pages'[r].keys) : k >= split_key
                       /\ pages'[r].keys # <<>> /\ pages'[l].keys # <<>>
                       /\ split_key = pages'[r].keys[1]
                       /\ r \in tx'.fresh \ tx.fresh
                       /\ l = leaf_for(pages', tx'.root, pages'[l].keys[1])
                       /\ r = leaf_for(pages', tx'.root, split_key)
                       /\ th'[1].result = "none"

\* C27: when an insert splits a full leaf, the keys of the left node and of
\* the new right sibling together are the old keys plus the inserted key,
\* every key of the left node is below split_key, every key of the right
\* sibling is at or above it, split_key is the first key of the right
\* sibling, and (split_key, id of the right sibling) is what the parent
\* receives
C27_leaf_split == [][C27_step]_vars

\* C27 witness: a leaf split under an internal node that was there before:
\* the parent holds two keys, the second the first key of a leaf allocated
\* by the transaction
C27_witness ==
    /\ writer = 1 /\ th[1].pc = "commit"
    /\ pages[tx.root].tag = "Internal"
    /\ Len(pages[tx.root].keys) = 2
    /\ pages[tx.root].children[3] \in tx.fresh
    /\ pages[pages[tx.root].children[3]].tag = "Leaf"
    /\ pages[tx.root].keys[2] = pages[pages[tx.root].children[3]].keys[1]
    /\ pages[tx.root].children[2] \in tx.fresh

\* the nodes a descent for key passes, root first
RECURSIVE path_for(_, _, _)
path_for(ps, id, key) ==
    IF ps[id].tag = "Leaf" THEN <<id>>
    ELSE <<id>> \o path_for(ps, Get(ps[id].children, upper_pivot(ps[id], key)), key)

\* the delete policy at level i of the path (the leaf is the last level):
\* whether the node merges, then the index of the key its parent deletes,
\* the keys of the node that survives the merge and the page merged away
RECURSIVE merge_at(_, _, _, _)
merge_at(ps, path, key, i) ==
    LET node   == ps[path[i]]
        parent == ps[path[i - 1]]
        pos    == upper_pivot(parent, key)
        lsib   == IF pos > 0 THEN Get(parent.children, pos - 1) ELSE NullPage
        rsib   == IF pos + 1 < Len(parent.children)
                  THEN Get(parent.children, pos + 1) ELSE NullPage
        isleaf == node.tag = "Leaf"
        below  == IF isleaf THEN [merges |-> key \in Elems(node.keys)]
                  ELSE merge_at(ps, path, key, i + 1)
        keys0  == IF isleaf THEN SelectSeq(node.keys, LAMBDA k : k # key)
                  ELSE IF below.merges THEN DeleteAt(node.keys, below.idx)
                  ELSE node.keys
        lb     == IF isleaf THEN leaf_lower_bound ELSE internal_lower_bound
        under  == below.merges /\ Len(keys0) < lb
        merges == /\ under
                  /\ lsib # NullPage => Len(ps[lsib].keys) <= lb
                  /\ rsib # NullPage => Len(ps[rsib].keys) <= lb
        sep(j) == IF isleaf THEN <<>> ELSE <<Get(parent.keys, j)>>
    IN  IF ~merges
        THEN [merges |-> FALSE, idx |-> None, keys |-> keys0, away |-> NullPage]
        ELSE IF lsib # NullPage
        THEN [merges |-> TRUE, idx |-> pos - 1,
              keys |-> ps[lsib].keys \o sep(pos - 1) \o keys0, away |-> path[i]]
        ELSE [merges |-> TRUE, idx |-> pos,
              keys |-> keys0 \o sep(pos) \o ps[rsib].keys, away |-> rsib]

\* the delete of this step finds its key in a leaf under a parent and the
\* leaf merges
merges_leaf ==
    /\ writer = 1 /\ th[1].pc = "delete"
    /\ pages[tx.root].tag = "Internal"
    /\ LET path == path_for(pages, tx.root, call_key(1))
       IN  merge_at(pages, path, call_key(1), Len(path)).merges

\* C28, steps: with top the highest level of the path that merges, the
\* parent of that level has lost the key and the child pointer of the node
\* merged away, and nothing else, or was the root left without a key, and
\* the surviving node is the new root; at every level that merges the page
\* merged away is scheduled for reclamation and not in the transaction's
\* tree, nor is any other scheduled page
C28_step ==
    merges_leaf =>
       LET key    == call_key(1)
           path   == path_for(pages, tx.root, key)
           d      == Len(path)
           top    == CHOOSE i \in 2..d :
                        /\ merge_at(pages, path, key, i).merges
                        /\ i > 2 => ~merge_at(pages, path, key, i - 1).merges
           m      == merge_at(pages, path, key, top)
           parent == pages[path[top - 1]]
           pkeys  == DeleteAt(parent.keys, m.idx)
           after  == path_for(pages', tx'.root, key)
           tree   == reachable(pages', tx'.root)
       IN  /\ th'[1].pc = "commit" /\ th'[1].result = "Ok"
           /\ \A i \in top..d :
                 /\ merge_at(pages, path, key, i).away \in tx'.shadowed
                 /\ merge_at(pages, path, key, i).away \notin tree
           /\ tx'.shadowed \cap tree = {}
           /\ IF top = 2 /\ pkeys = <<>>
              THEN /\ Len(after) = d - 1
                   /\ pages'[tx'.root].keys = m.keys
              ELSE /\ Len(after) = d
                   /\ pages'[after[top]].keys = m.keys
                   /\ (top = 2 \/ Len(pkeys) >= internal_lower_bound) =>
                         /\ pages'[after[top - 1]].keys = pkeys
                         /\ Len(pages'[after[top - 1]].children)
                               = Len(parent.children) - 1
                         /\ \A c \in Elems(pages'[after[top - 1]].children) :
                               c = after[top] \/ c \in Elems(parent.children)
                         /\ m.away \notin Elems(pages'[after[top - 1]].children)

descent_phase ==
    IF bt.phase # "Idle" THEN bt.phase
    ELSE IF writer = 1 /\ th[1].pc \in {"insert", "delete"} THEN "Descending"
    ELSE "Idle"

descent_order ==
    {<<"Idle", "Descending">>, <<"Descending", "MutatingLeaf">>,
     <<"MutatingLeaf", "Done">>, <<"MutatingLeaf", "Propagating">>,
     <<"Propagating", "Propagating">>, <<"Propagating", "Done">>,
     <<"Done", "Idle">>, <<"Done", "Descending">>}

\* C29, steps: the phases follow one another in order; a step on the leaf or
\* in the propagation consumes the last frame of the stack, a frame not
\* consumed before, the leaf first and then the parent of the frame before;
\* it allocates at most the sibling of one split or the shadow of one
\* rebalanced sibling, and a new root with the last frame only; it ends on a
\* settled node, on the exhausted stack with a new root, or on the root
\* accepted underfull
C29_step ==
    /\ descent_phase' # descent_phase =>
          <<descent_phase, descent_phase'>> \in descent_order
    /\ bt.phase \in {"MutatingLeaf", "Propagating"} =>
          /\ bt.stack # <<>>
          /\ bt'.stack = Front(bt.stack)
          /\ bt'.consumed = Append(bt.consumed, Last(bt.stack))
          /\ \A i \in DOMAIN bt.consumed : bt.consumed[i].id # Last(bt.stack).id
          /\ IF bt.phase = "MutatingLeaf"
             THEN bt.consumed = <<>> /\ pages[Last(bt.stack).id].tag = "Leaf"
             ELSE /\ pages[Last(bt.stack).id].tag = "Internal"
                  /\ Last(bt.consumed).parent = Last(bt.stack).id
          /\ Cardinality(tx'.fresh \ tx.fresh)
                <= IF bt'.why = "new_root" THEN 2 ELSE 1
          /\ bt'.phase \in {"Propagating", "Done"}
          /\ bt'.phase = "Propagating" => bt'.stack # <<>>
          /\ bt'.phase = "Done" =>
                \/ bt'.why = "settled"
                \/ bt'.why = "error" /\ bt.phase = "MutatingLeaf"
                \/ /\ bt'.why \in {"new_root", "root_promoted"}
                   /\ bt'.stack = <<>>
                   /\ tx'.root # tx.root
                \/ /\ bt'.why = "root_underfull"
                   /\ bt'.stack = <<>>
                   /\ tx'.root = tx.root

\* C29, states: the frames consumed and the frames left are the levels of
\* the tree the descent started in
C29_state ==
    bt.phase # "Idle" =>
       Len(bt.consumed) + Len(bt.stack) = height(bt.start.pages, bt.start.root)

\* C29: every mutating descent follows Descending, MutatingLeaf, Propagating,
\* Done and always reaches Done: an insert or delete consumes each backtrack
\* frame at most once, leaf first, so propagation performs at most one split
\* or rebalance per level and stops on a settled parent, on an exhausted
\* stack (new root created), or on a root accepted underfull
C29_descent_reaches_done ==
    /\ []C29_state
    /\ [][C29_step]_vars
    /\ (descent_phase = "Descending") ~> (bt.phase = "Done")

\* C29 witness: an insert has split its leaf and the root above it, consumed
\* both frames, leaf first, and ended on the exhausted stack with a new root
C29_witness ==
    /\ bt.phase = "Done" /\ bt.why = "new_root"
    /\ th[1].pc = "insert"
    /\ Len(bt.consumed) = 2 /\ bt.stack = <<>>
    /\ pages[bt.consumed[1].id].tag = "Leaf"
    /\ bt.consumed[1].parent = bt.consumed[2].id
    /\ height(pages, tx.root) = 3

\* C30, states: while an insert_many call is in its write transaction, failed
\* or not, lookup and range on the published root see the pairs of before the
\* call and none of the pairs the batch has inserted so far
C30_state ==
    (th[1].op = "insert_many" /\ th[1].pc \in {"insert", "failed"}) =>
       /\ latest_version = th[1].pre
       /\ entries(pages, published_root) = th[1].pre_entries
       /\ \A e \in tx.model \ Elems(th[1].pre_entries) :
             /\ lookup(pages, published_root, e[1]) # e[2]
             /\ \A a \in 0..NInsKeys :
                   e[2] \notin Elems(range(pages, published_root, a, NInsKeys))

\* C30, steps: the insert of a pair whose key the tree or the batch already
\* has fails the call; the failed call returns with its transaction dropped:
\* no version is published, the pairs the batch inserted before the failing
\* one are visible to neither lookup nor range, and no checkpoint is made
C30_step ==
    th[1].op = "insert_many" =>
       /\ (th[1].pc = "insert" /\ th'[1] # th[1]
              /\ value_of(tx.model, call_key(1)) # None)
            => (th'[1].pc = "failed" /\ th'[1].result = "DuplicatedKey")
       /\ (th[1].pc = "failed" /\ th'[1] # th[1])
            => /\ th'[1].pc = "idle"
               /\ writer' = 0
               /\ latest_version' = th[1].pre
               /\ hist' = hist
               /\ entries(pages', latest_version'.root) = th[1].pre_entries
               /\ \A e \in tx.model \ Elems(th[1].pre_entries) :
                     /\ lookup(pages', latest_version'.root, e[1]) # e[2]
                     /\ \A a \in 0..NInsKeys :
                           e[2] \notin Elems(range(pages', latest_version'.root,
                                                   a, NInsKeys))
               /\ UNCHANGED <<metadata, metadata_file, checkpointed, disk,
                              unpublished, versions>>

\* C30: insert_many is all-or-nothing: if inserting any pair of the batch
\* fails (DuplicatedKey), the write transaction is dropped without commit,
\* none of the pairs of the batch, those inserted before the failing one
\* included, becomes visible to lookup or range, and no checkpoint is made
C30_insert_many_all_or_nothing == []C30_state /\ [][C30_step]_vars

\* C30 witness: the second pair of a batch failed after the first pair was
\* inserted in the transaction, in a tree with committed pairs
C30_witness ==
    /\ th[1].op = "insert_many" /\ th[1].pc = "failed"
    /\ th[1].result = "DuplicatedKey"
    /\ Len(th[1].items) = 1
    /\ tx.model \ committed # {}
    /\ committed # {}
    /\ tx.root # published_root

\* the root case of delete_internal is about to run: the frame to consume is
\* the root's and deleting anchor_to_delete leaves the root without keys
root_case_reached ==
    /\ bt.phase = "Propagating" /\ th[1].pc = "delete"
    /\ bt.stack # <<>>
    /\ Last(bt.stack).parent = NullPage
    /\ Len(delete_key_children(pages[Last(bt.stack).id], bt.carry[2]).node.keys) = 0

\* the children of the emptied root in the root case
emptied_root_children ==
    delete_key_children(pages[Last(bt.stack).id], bt.carry[2]).node.children

\* C31, states: when the root case is reached with the root emptied, the
\* anchor delete_internal was called with is 0 and children().get(anchor)
\* is the one child left
C31_state ==
    root_case_reached =>
       /\ bt.carry[1] = 0
       /\ Len(emptied_root_children) = 1
       /\ TryGet(emptied_root_children, bt.carry[1]) = emptied_root_children[1]

\* C31, steps: the root case makes the one child left the root of the
\* transaction, without a failed assertion
C31_step ==
    root_case_reached =>
       /\ bt'.phase = "Done"
       /\ ~bt'.ub
       /\ tx'.root = emptied_root_children[1]

\* C31: in the root case of delete_internal, debug_assert!(anchor == 0)
\* holds every time it is reached and children().get(anchor) is the single
\* remaining child of the emptied root, anchor being the argument of the
\* function (the anchor of the leaf-level merge), also when the merge went
\* through internal levels before the root
C31_root_case_anchor == []C31_state /\ [][C31_step]_vars

\* the part of C31 the code keeps: the emptied root has one child left, and
\* the anchor deleted in the root (anchor_to_delete) is 0
root_case_one_child ==
    root_case_reached =>
       /\ bt.carry[2] = 0
       /\ Len(emptied_root_children) = 1

\* C31 witness: the root case is reached after the merge went through an
\* internal level, with the anchor of a leaf-level merge that is not 0
C31_witness ==
    /\ root_case_reached
    /\ Len(bt.consumed) = 2
    /\ bt.carry[1] # 0 /\ bt.carry[2] = 0
    /\ Len(emptied_root_children) = 1

\* thread w waits for a lock thread v holds: the writer slot at
\* insert_transaction and at collect_pending, the metadata mutex at lock()
waits_for(w, v) ==
    \/ th[w].pc \in {"lock_writer", "checkpoint"} /\ writer = v
    \/ th[w].pc = "write" /\ holds_metadata(v)

\* C32, states: a thread waiting for the writer slot or in a checkpoint does
\* not hold the writer slot, one thread at most holds the metadata mutex, and
\* no two threads wait for each other
C32_state ==
    /\ \A w \in DOMAIN th :
          th[w].pc \in {"lock_writer", "checkpoint", "sync_file", "write", "sync_all"}
             => writer # w
    /\ Cardinality({w \in DOMAIN th : holds_metadata(w)}) <= 1
    /\ \A w \in DOMAIN th : ~waits_for(w, w)
    /\ \A w \in DOMAIN th : \A v \in DOMAIN th : ~(waits_for(w, v) /\ waits_for(v, w))

\* every call of a writer thread returns
C32_calls_return ==
    \A w \in LockThreads : (th[w].pc # "idle") ~> (th[w].pc = "idle")

\* every lookup and every range of the reader ends
C32_reads_return == (rd[1].pc # "idle") ~> (rd[1].pc = "idle")

\* the part of C32 the code keeps: every call of a writer thread ends, by a
\* return or by the panic of its thread
calls_end ==
    \A w \in LockThreads :
        (th[w].pc \notin {"idle", "panicked"}) ~> (th[w].pc \in {"idle", "panicked"})

\* C32: no deadlock: with threads calling lookup, range, insert_async,
\* insert_one, insert_many, delete and checkpoint on one tree concurrently,
\* the writer lock and the metadata mutex are never held in a cyclic wait,
\* and every call eventually returns
C32_no_deadlock == []C32_state /\ C32_calls_return /\ C32_reads_return

\* C32 witness: thread 1 holds the metadata mutex in the checkpoint of its
\* call while thread 2 has the writer slot and is inserting
C32_witness ==
    /\ holds_metadata(1)
    /\ writer = 2 /\ th[2].pc = "insert"

\* the parent internal node the promoted pair is about to be inserted in
propagating_insert == bt.phase = "Propagating" /\ th[1].pc = "insert"

promoted_insert_status ==
    internal_insert(pages[Last(bt.stack).id], bt.carry[1], bt.carry[2]).status

\* C33: during split propagation in insert_in_internals, the insert of the
\* promoted (split_key, right_id) in a parent internal node gives Ok or
\* Split only, so the unreachable!() arm is never executed: the split key
\* promoted from a child is never a key the parent already has
C33_promoted_key_is_new ==
    /\ propagating_insert =>
          /\ pages[Last(bt.stack).id].tag = "Internal"
          /\ \A i \in DOMAIN pages[Last(bt.stack).id].keys :
                pages[Last(bt.stack).id].keys[i] # bt.carry[1]
          /\ promoted_insert_status \in {"Ok", "Split"}
    /\ bt.err # "unreachable"
    /\ th[1].result # "unreachable"

\* C33 witness: the pair promoted by a leaf split is about to be inserted
\* in a full parent, which splits in its turn
C33_witness ==
    /\ propagating_insert
    /\ Len(bt.consumed) = 1
    /\ Len(pages[Last(bt.stack).id].keys) = DeepInternalCap
    /\ promoted_insert_status = "Split"

====
